---------------------------- MODULE Spec2Model ----------------------------
(***************************************************************************)
(* Model of the activedispatch-server normalization / geocoding pipeline:  *)
(*   services/geocode.js  (normalizeAddress, geocode and its TTL cache),   *)
(*   adapters/nashville.js, adapters/pdx.js, adapters/sf.js (fetchCity),   *)
(*   the mapWithConcurrency worker pool the adapters share, and the        *)
(*   response cache of routes/city.js.                                     *)
(*                                                                         *)
(* JavaScript strings are sequences of one-character strings.  JavaScript  *)
(* values that can be a string, a number, null or undefined are records    *)
(* [t, s, n] (see Str, Num, Null, Undefined, NaN).  Coordinates are        *)
(* integers in units of 1/10000 degree.  Distances are in 1/1000 mile.     *)
(***************************************************************************)
EXTENDS Integers, Sequences, FiniteSets, TLC

(***************************************************************************)
(* JavaScript values                                                       *)
(***************************************************************************)
Str(s)    == [t |-> "str", s |-> s, n |-> 0]
Num(n)    == [t |-> "num", s |-> <<>>, n |-> n]
NaN       == [t |-> "nan", s |-> <<>>, n |-> 0]
Null      == [t |-> "null", s |-> <<>>, n |-> 0]
Undefined == [t |-> "undef", s |-> <<>>, n |-> 0]

\* x == null (true of null and undefined): the test behind ?? and != null
IsNullish(v) == v.t \in {"null", "undef"}
\* Number.isFinite(v)
IsFinite(v) == v.t = "num"
\* !v for the value kinds of the model ("" , 0, NaN, null, undefined are falsy)
IsFalsy(v) == \/ v.t \in {"null", "undef", "nan"}
              \/ (v.t = "str" /\ v.s = <<>>)
              \/ (v.t = "num" /\ v.n = 0)

\* obj[k] of a plain object modelled as a function on its own keys
Get(obj, k) == IF k \in DOMAIN obj THEN obj[k] ELSE Undefined

\* a ?? b ?? ... over a key list, ending in dflt
RECURSIVE Coalesce(_, _, _)
Coalesce(obj, keys, dflt) ==
  IF keys = <<>> THEN dflt
  ELSE IF ~IsNullish(Get(obj, Head(keys))) THEN Get(obj, Head(keys))
  ELSE Coalesce(obj, Tail(keys), dflt)

(***************************************************************************)
(* Characters and strings                                                  *)
(***************************************************************************)
UpperLetters == <<"A","B","C","D","E","F","G","H","I","J","K","L","M",
                  "N","O","P","Q","R","S","T","U","V","W","X","Y","Z">>
LowerLetters == <<"a","b","c","d","e","f","g","h","i","j","k","l","m",
                  "n","o","p","q","r","s","t","u","v","w","x","y","z">>
Digits == <<"0","1","2","3","4","5","6","7","8","9">>

Range(f) == {f[i] : i \in DOMAIN f}
IndexIn(c, seq) == CHOOSE i \in DOMAIN seq : seq[i] = c

IsUpper(c) == c \in Range(UpperLetters)
IsLower(c) == c \in Range(LowerLetters)
IsDigit(c) == c \in Range(Digits)
\* \s of a JavaScript regular expression, and what String.trim removes
IsSpace(c) == c \in {" ", "\t", "\n"}
\* \w of a JavaScript regular expression
IsWordChar(c) == IsUpper(c) \/ IsLower(c) \/ IsDigit(c) \/ c = "_"

LowerChar(c) == IF IsUpper(c) THEN LowerLetters[IndexIn(c, UpperLetters)] ELSE c
UpperChar(c) == IF IsLower(c) THEN UpperLetters[IndexIn(c, LowerLetters)] ELSE c

\* String.prototype.toLowerCase / toUpperCase
ToLowerCase(s) == [i \in DOMAIN s |-> LowerChar(s[i])]
ToUpperCase(s) == [i \in DOMAIN s |-> UpperChar(s[i])]

RECURSIVE TrimStart(_)
TrimStart(s) == IF s # <<>> /\ IsSpace(Head(s)) THEN TrimStart(Tail(s)) ELSE s
RECURSIVE TrimEnd(_)
TrimEnd(s) == IF s # <<>> /\ IsSpace(s[Len(s)])
              THEN TrimEnd(SubSeq(s, 1, Len(s) - 1)) ELSE s
\* String.prototype.trim
Trim(s) == TrimEnd(TrimStart(s))

\* s.replace(/\s+/g, " "): every maximal run of whitespace becomes one space
RECURSIVE CollapseSpaces(_)
CollapseSpaces(s) ==
  IF s = <<>> THEN <<>>
  ELSE IF IsSpace(Head(s))
       THEN <<" ">> \o CollapseSpaces(TrimStart(s))
       ELSE <<Head(s)>> \o CollapseSpaces(Tail(s))

\* s.replace(/\s{2,}/g, " "): runs of two or more become one space; a single
\* whitespace character (a tab, say) is left as it is
RECURSIVE CollapseRuns(_)
CollapseRuns(s) ==
  IF s = <<>> THEN <<>>
  ELSE IF IsSpace(Head(s)) /\ Len(s) >= 2 /\ IsSpace(s[2])
       THEN <<" ">> \o CollapseRuns(TrimStart(s))
       ELSE <<Head(s)>> \o CollapseRuns(Tail(s))

\* s.includes(p)
Includes(s, p) == \E i \in 0..(Len(s) - Len(p)) : SubSeq(s, i + 1, i + Len(p)) = p

\* the last index of character c in s, 0 when there is none
LastIndexOf(s, c) ==
  IF \E i \in DOMAIN s : s[i] = c
  THEN CHOOSE i \in DOMAIN s : s[i] = c /\ \A j \in (i + 1)..Len(s) : s[j] # c
  ELSE 0

(***************************************************************************)
(* services/geocode.js: normalizeAddress                                   *)
(***************************************************************************)
\* String(addr || ""): addresses reaching the service are strings or null
StringOrEmpty(v) == IF IsFalsy(v) THEN <<>> ELSE v.s

\* a variant of normalizeAddress that does not trim
normalizeAddress_NoTrim(addr) ==
  ToLowerCase(CollapseSpaces(StringOrEmpty(addr)))

normalizeAddress(addr) ==
  ToLowerCase(CollapseSpaces(Trim(StringOrEmpty(addr))))


(***************************************************************************)
(* Number(v) on the value kinds of the model.  A decimal literal is read   *)
(* to four fractional digits (the unit of the model's coordinates).        *)
(***************************************************************************)
DigitVal(c) == IndexIn(c, Digits) - 1

RECURSIVE DigitsVal(_)
DigitsVal(s) == IF s = <<>> THEN 0
                ELSE DigitsVal(SubSeq(s, 1, Len(s) - 1)) * 10 + DigitVal(s[Len(s)])

AllDigits(s) == \A i \in DOMAIN s : IsDigit(s[i])

\* the fraction digits f as a count of 1/10000
FractionVal(f) ==
  LET f4 == IF Len(f) >= 4 THEN SubSeq(f, 1, 4) ELSE f
      pad == CASE Len(f4) = 0 -> 10000 [] Len(f4) = 1 -> 1000 [] Len(f4) = 2 -> 100
               [] Len(f4) = 3 -> 10 [] OTHER -> 1
  IN IF f4 = <<>> THEN 0 ELSE DigitsVal(f4) * pad

\* the value of a literal with integer digits ip and fraction digits fp
DecimalOf(neg, ip, fp) ==
  IF AllDigits(ip) /\ AllDigits(fp) /\ Len(ip) + Len(fp) >= 1
  THEN Num((IF neg THEN -1 ELSE 1) * (DigitsVal(ip) * 10000 + FractionVal(fp)))
  ELSE NaN
\* u is the literal without its sign, dot the index of its last "." (0: none)
SplitDecimal(neg, u, dot) ==
  IF dot = 0 THEN DecimalOf(neg, u, <<>>)
  ELSE DecimalOf(neg, SubSeq(u, 1, dot - 1), SubSeq(u, dot + 1, Len(u)))
\* t is the trimmed literal; "" is 0
SignedDecimal(t) ==
  IF t = <<>> THEN Num(0)
  ELSE IF Head(t) \in {"-", "+"}
       THEN SplitDecimal(Head(t) = "-", Tail(t), LastIndexOf(Tail(t), "."))
       ELSE SplitDecimal(FALSE, t, LastIndexOf(t, "."))
ParseDecimal(s) == SignedDecimal(Trim(s))

ToNumber(v) ==
  CASE v.t = "num" -> v
    [] v.t = "str" -> ParseDecimal(v.s)
    [] v.t = "null" -> Num(0)
    [] OTHER -> NaN

(***************************************************************************)
(* adapters/nashville.js: address helpers                                  *)
(***************************************************************************)
\* t.replace(/\\+/g, "/"): every run of backslashes becomes one slash
RECURSIVE BackslashesToSlash(_)
BackslashesToSlash(s) ==
  IF s = <<>> THEN <<>>
  ELSE IF Head(s) = "\\"
       THEN IF Len(s) >= 2 /\ s[2] = "\\" THEN BackslashesToSlash(Tail(s))
            ELSE <<"/">> \o BackslashesToSlash(Tail(s))
       ELSE <<Head(s)>> \o BackslashesToSlash(Tail(s))

\* t.replace(/\s*\/\s*/g, " / ")
RECURSIVE SpaceAroundSlash(_)
SpaceAroundSlash(s) ==
  IF s = <<>> THEN <<>>
  ELSE IF TrimStart(s) # <<>> /\ Head(TrimStart(s)) = "/"
       THEN <<" ", "/", " ">> \o SpaceAroundSlash(TrimStart(Tail(TrimStart(s))))
       ELSE <<Head(s)>> \o SpaceAroundSlash(Tail(s))

normalizeIntersection(v) ==
  CollapseRuns(SpaceAroundSlash(BackslashesToSlash(Trim(StringOrEmpty(v)))))

\* the length of the longest prefix of s matching [a-z0-9']*
RECURSIVE WordRestLen(_)
WordRestLen(s) ==
  IF s # <<>> /\ (IsLower(Head(s)) \/ IsDigit(Head(s)) \/ Head(s) = "'")
  THEN 1 + WordRestLen(Tail(s)) ELSE 0

\* .replace(/\b([a-z])([a-z0-9']*)/g, (_, a, rest) => a.toUpperCase() + rest)
\* scanning s with prevWord = "the character before s is a word character"
RECURSIVE CapitalizeWords(_, _)
CapitalizeWords(s, prevWord) ==
  IF s = <<>> THEN <<>>
  ELSE IF IsLower(Head(s)) /\ ~prevWord
       THEN LET k == WordRestLen(Tail(s))
            IN <<UpperChar(Head(s))>> \o SubSeq(s, 2, 1 + k)
                 \o CapitalizeWords(SubSeq(s, 2 + k, Len(s)), IsWordChar(s[1 + k]))
       ELSE <<Head(s)>> \o CapitalizeWords(Tail(s), IsWordChar(Head(s)))

titleCase(v) == CapitalizeWords(ToLowerCase(StringOrEmpty(v)), FALSE)

S_Nashville == <<"N","a","s","h","v","i","l","l","e">>
S_CommaTN == <<","," ","T","N">>
S_CommaSpace == <<",", " ">>
S_NashvilleTN == <<","," ","N","a","s","h","v","i","l","l","e",","," ","T","N">>

PRECINCT_OR_DIRECTION ==
  { <<"E","A","S","T">>,
    <<"W","E","S","T">>,
    <<"N","O","R","T","H">>,
    <<"S","O","U","T","H">>,
    <<"C","E","N","T","R","A","L">>,
    <<"M","I","D","T","O","W","N">>,
    <<"D","O","W","N","T","O","W","N">> }

pickDisplayCity(cityName) ==
  LET raw == Trim(StringOrEmpty(cityName))
  IN IF raw = <<>> THEN S_Nashville
     ELSE IF ToUpperCase(raw) \in PRECINCT_OR_DIRECTION THEN S_Nashville
     ELSE titleCase(Str(raw))

buildDisplayAddress(rawStreet, cityName) ==
  LET street == titleCase(Str(normalizeIntersection(rawStreet)))
      city == pickDisplayCity(cityName)
  IN IF street = <<>> THEN city \o S_CommaTN
     ELSE street \o S_CommaSpace \o city \o S_CommaTN

ADDRESS_KEYS == <<"Address", "ADDRESS", "Location", "LOCATION", "addr_full",
                  "Street", "STREET">>
extractAddress(props) == Coalesce(props, ADDRESS_KEYS, Null)

\* props.CityName || props.city || props.CITYNAME
extractCityName(props) ==
  IF ~IsFalsy(Get(props, "CityName")) THEN Get(props, "CityName")
  ELSE IF ~IsFalsy(Get(props, "city")) THEN Get(props, "city")
  ELSE Get(props, "CITYNAME")

\* /, [^,]+, TN$/i.test(s): s ends with ", TN" (any case) and the text before
\* it ends with ", " followed by one or more characters other than a comma
ForcePatternAt(s) ==
  LET rest == SubSeq(s, 1, Len(s) - 4)
      j == LastIndexOf(rest, ",")
  IN IF /\ Len(s) >= 4
        /\ ToLowerCase(SubSeq(s, Len(s) - 3, Len(s))) = ToLowerCase(S_CommaTN)
        /\ j >= 1
        /\ Len(rest) >= j + 2
        /\ rest[j + 1] = " "
     THEN j ELSE 0

forceNashville(address) ==
  LET s == StringOrEmpty(address)
      j == ForcePatternAt(s)
  IN IF j > 0 THEN SubSeq(s, 1, j - 1) \o S_NashvilleTN
     ELSE IF Len(s) >= 2 /\ ToLowerCase(SubSeq(s, Len(s) - 1, Len(s))) = <<"t", "n">>
          THEN s
          ELSE s \o S_NashvilleTN

(***************************************************************************)
(* adapters/pdx.js: withCityState                                          *)
(***************************************************************************)
S_PortlandOR == <<"P","o","r","t","l","a","n","d",","," ","O","R">>

withCityState(address) ==
  IF IsFalsy(address) THEN S_PortlandOR
  ELSE LET lower == ToLowerCase(address.s)
       IN IF Includes(lower, <<"p","o","r","t","l","a","n","d">>)
               \/ Includes(lower, <<" ","o","r">>)
               \/ Includes(lower, <<"o","r","e","g","o","n">>)
          THEN address.s
          ELSE address.s \o S_CommaSpace \o S_PortlandOR


(***************************************************************************)
(* Bounds of the model and constants of the program                        *)
(***************************************************************************)
\* rows in one upstream response
MaxRows == 2
\* the longest address string handed to a helper function in SpecFn
MaxLen == 4
\* the clock of SpecGeo stops here
MaxTime == 3
\* geocode calls issued by the free-standing clients of SpecGeo
MaxCalls == 2
\* items handed to mapWithConcurrency in SpecPool (above the pool width)
MaxItems == 6

\* GEOCODE_TTL_SECONDS * 1000, in ticks of the model clock
TTL == 2
\* a fetchCity is over before an entry stored during it can expire (the TTL
\* defaults to 30 days): the clock stops here while a fetchCity runs
MaxFetchTime == TTL - 1
\* the limit both adapters pass to mapWithConcurrency
POOL_LIMIT == 5
\* MAX_MILES, and the same in 1/1000 mile
MAX_MILES == 40
MaxMilli == MAX_MILES * 1000
\* Infinity, as a distance
Infinity == 1000000000

NASHVILLE_CENTER == [lat |-> Num(361627), lon |-> Num(-867816)]

(***************************************************************************)
(* The geocoding provider: what an outbound request can answer.            *)
(*   H_NEAR   36.2461,-86.7195   6.7 miles from the Nashville center       *)
(*   H_FAR    37.8995,-86.7816   120.0 miles from the Nashville center     *)
(*   H_MEMPHIS 35.1495,-90.0490  196.3 miles from the Nashville center     *)
(***************************************************************************)
S_Label == <<"F","m","t">>
\* body.results[0] as {geometry.lat, geometry.lng, formatted}
H_NEAR == [lat |-> Num(362461), lng |-> Num(-867195), formatted |-> Str(S_Label)]
H_FAR == [lat |-> Num(378995), lng |-> Num(-867816), formatted |-> Str(S_Label)]
H_MEMPHIS == [lat |-> Num(351495), lng |-> Num(-900490), formatted |-> Str(S_Label)]
NoHit == [lat |-> Undefined, lng |-> Undefined, formatted |-> Undefined]
NoData == [lat |-> Undefined, lon |-> Undefined, formatted |-> Undefined]

\* what request(url) gives geocode: a transport failure (ok is FALSE), or
\* {statusCode, body.results[0]}: an error status, an empty result list, a hit
ProviderResponses ==
  { [ok |-> FALSE, statusCode |-> 0, hit |-> NoHit],
    [ok |-> TRUE, statusCode |-> 500, hit |-> NoHit],
    [ok |-> TRUE, statusCode |-> 200, hit |-> NoHit],
    [ok |-> TRUE, statusCode |-> 200, hit |-> H_NEAR],
    [ok |-> TRUE, statusCode |-> 200, hit |-> H_FAR],
    [ok |-> TRUE, statusCode |-> 200, hit |-> H_MEMPHIS] }

\* haversineMiles(a, b) in 1/1000 mile, for the points the provider can answer;
\* the values are those of the source's formula (R = 3958.7613)
haversineMiles(a, b) ==
  IF ~IsFinite(a.lat) \/ ~IsFinite(a.lon) \/ ~IsFinite(b.lat) \/ ~IsFinite(b.lon)
  THEN Infinity
  ELSE CASE <<a.lat.n, a.lon.n, b.lat.n, b.lon.n>> = <<362461, -867195, 361627, -867816>> -> 6723
         [] <<a.lat.n, a.lon.n, b.lat.n, b.lon.n>> = <<378995, -867816, 361627, -867816>> -> 120001
         [] <<a.lat.n, a.lon.n, b.lat.n, b.lon.n>> = <<351495, -900490, 361627, -867816>> -> 196324
         [] <<a.lat.n, a.lon.n>> = <<b.lat.n, b.lon.n>> -> 0

(***************************************************************************)
(* State                                                                   *)
(***************************************************************************)
VARIABLES
  adapter,        \* which adapter's fetchCity runs: "nashville", "pdx", "sf"
  urlSet,         \* process.env.NASHVILLE_URL / PORTLAND_URL is set
  keySet,         \* process.env.OPENCAGE_KEY is set
  pc,             \* where fetchCity is: start, request, pool, done, failed
                  \* (SpecPool: mapstart, map, mapdone; SpecGeo: geo;
                  \* SpecCity: city; SpecFn: call, returned)
  err,            \* what fetchCity threw: none, config, upstream, parse, type,
                  \* range
  resp,           \* the upstream response it got
  rows,           \* prelim (nashville) / rows (pdx, sf)
  uniqueKeys,     \* Array.from(uniqueAddrMap.keys())
  uniqueAddrMap,  \* normalized address -> first original address
  geocodeResults, \* normalized address -> geocode result
  nextIdx,        \* mapWithConcurrency's i: items handed out so far
  runners,        \* mapWithConcurrency's run() tasks
  calls,          \* every geocode() call made, in call order (SpecPool: the
                  \* worker's invocations; SpecCity: the requests)
  cache,          \* services/geocode.js cache: query -> {data, expiresAt}
                  \* (SpecCity: the cache of routes/city.js)
  now,            \* Date.now(), in ticks
  places,         \* the places list fetchCity returns
  poolLog,        \* SpecPool: per item, how many workers had finished at its start
  input,          \* SpecFn: the argument a helper function is called with
  output          \* SpecFn: what the call returned (SpecPool: results)

vars == <<adapter, urlSet, keySet, pc, err, resp, rows, uniqueKeys, uniqueAddrMap,
          geocodeResults, nextIdx, runners, calls, cache, now, places, poolLog,
          input, output>>

fnVars == <<input, output>>

fetchVars == <<rows, uniqueKeys, uniqueAddrMap, geocodeResults, nextIdx, runners,
               places>>


\* a Map as a function on its keys
EmptyMap == [k \in {} |-> NoData]
MapHas(m, k) == k \in DOMAIN m
MapSet(m, k, v) == [x \in DOMAIN m \cup {k} |-> IF x = k THEN v ELSE m[x]]

(***************************************************************************)
(* services/geocode.js: geocode                                            *)
(***************************************************************************)
\* a variant of the freshness test that still serves an entry at its expiry time
CacheFresh_Inclusive(c, q, t) == MapHas(c, q) /\ c[q].expiresAt >= t

\* cached && cached.expiresAt > now
CacheFresh(c, q, t) == MapHas(c, q) /\ c[q].expiresAt > t

\* geocode(address) up to its first await: the key check, the cache lookup,
\* and on a miss the outbound request.  The result is the call's record:
\* start is the call's Date.now(), end the time it settled, hit / outbound
\* whether it returned from the cache / issued a request.
GeocodeBegin(address, who) ==
  LET q == normalizeAddress(Str(address))
      base == [address |-> address, q |-> q, start |-> now, end |-> now, runner |-> who.runner,
               key |-> who.key, attempt |-> who.attempt, hit |-> FALSE,
               outbound |-> FALSE, state |-> "err", data |-> NoData]
  IN IF ~keySet THEN base
     ELSE IF CacheFresh(cache, q, now)
          THEN [base EXCEPT !.state = "ok", !.data = cache[q].data, !.hit = TRUE]
          ELSE [base EXCEPT !.state = "inflight", !.outbound = TRUE]

\* const data = { lat, lon, formatted } of the top hit
GeocodeData(r) == [lat |-> r.hit.lat, lon |-> r.hit.lng, formatted |-> r.hit.formatted]

\* a variant of geocode that returns the top hit without the finite check
GeocodeOutcome_NoFiniteCheck(r) ==
  IF ~r.ok \/ r.statusCode >= 400 THEN "err" ELSE "ok"

\* geocode after the request: the await rejects on a transport failure; else
\* the status check, the top hit, the finite check
GeocodeOutcome(r) ==
  IF ~r.ok THEN "err"
  ELSE IF r.statusCode >= 400 THEN "err"
  ELSE IF ~IsFinite(GeocodeData(r).lat) \/ ~IsFinite(GeocodeData(r).lon) THEN "err"
  ELSE "ok"

\* cache.set(q, { data, expiresAt: now + TTL * 1000 }), now read at the call
CacheEntry(c, data) == [data |-> data, expiresAt |-> c.start + TTL]

\* A settled promise's continuation (a microtask) runs before the event loop
\* takes the next I/O event or lets time pass: no worker is left waiting on a
\* geocode call that has already settled.
NoPendingResume ==
  \A r \in DOMAIN runners :
     (runners[r].state = "await" /\ runners[r].call \in DOMAIN calls)
       => calls[runners[r].call].state = "inflight"

\* a variant of the resumption that stores whatever came of the request
Settle_StoreAlways(id, r) ==
  /\ calls' = [calls EXCEPT ![id].state = GeocodeOutcome(r),
                            ![id].data = IF GeocodeOutcome(r) = "ok"
                                         THEN GeocodeData(r) ELSE NoData,
                            ![id].end = now]
  /\ cache' = MapSet(cache, calls[id].q, CacheEntry(calls[id], GeocodeData(r)))

\* geocode of call id is resumed with the answer r and runs to its end
Settle(id, r) ==
  LET c == calls[id]
      out == GeocodeOutcome(r)
      data == IF out = "ok" THEN GeocodeData(r) ELSE NoData
  IN /\ calls' = [calls EXCEPT ![id].state = out, ![id].data = data,
                               ![id].end = now]
     /\ cache' = IF out = "ok" THEN MapSet(cache, c.q, CacheEntry(c, data))
                 ELSE cache

\* The provider answers the request of call id, and geocode runs to its end.
ProviderRespond(id) ==
  /\ NoPendingResume
  /\ calls[id].state = "inflight"
  /\ \E r \in ProviderResponses : Settle(id, r)
  /\ UNCHANGED <<fnVars, adapter, urlSet, keySet, pc, err, resp, fetchVars, now, poolLog>>

\* Time passes.
Tick ==
  /\ NoPendingResume
  /\ now < (IF pc = "geo" THEN MaxTime ELSE MaxFetchTime)
  /\ now' = now + 1
  /\ UNCHANGED <<fnVars, adapter, urlSet, keySet, pc, err, resp, fetchVars, calls, cache,
                 poolLog>>


(***************************************************************************)
(* mapWithConcurrency(items, limit, worker)                                *)
(***************************************************************************)
\* a variant that starts one runner per item, whatever the limit
PoolWidth_Unbounded(limit, n) == n

\* Array.from({ length: Math.min(limit, items.length) }, run)
PoolWidth(limit, n) == IF limit <= n THEN limit ELSE n

\* a variant of the loop test that goes round once more
HasNext_Inclusive(i, n) == i <= n

\* while (i < items.length): the loop test of run()
HasNext(i, n) == i < n

\* A runner: awaiting the worker of item idx, or returned from run().
\* call is the geocode call the worker awaits, first the result of the
\* worker's first geocode (nashville's g) while it awaits the retry.
Runner(idx, call) == [state |-> "await", idx |-> idx, call |-> call, first |-> NoData]
\* a variant in which a runner that finds no item left does not return
ExitedRunner_Stuck(r) == r

ExitedRunner(r) == [r EXCEPT !.state = "exit"]

AllExited == \A r \in DOMAIN runners : runners[r].state = "exit"
InFlight == {r \in DOMAIN runners : runners[r].state = "await"}

(***************************************************************************)
(* Dates.  An instant is a day number (days since 1970-01-01) and a minute *)
(* of that day, UTC.  A number handed to new Date() is an epoch counted in *)
(* days; new Date() accepts 100,000,000 days on either side of the epoch.  *)
(***************************************************************************)
\* a string literal as a sequence of characters
Chars(s) == [i \in 1..Len(s) |-> SubSeq(s, i, i)]

\* n in decimal, zero-padded (or cut) to w digits
RECURSIVE Pad(_, _)
Pad(n, w) == IF w = 0 THEN <<>> ELSE Pad(n \div 10, w - 1) \o <<Digits[(n % 10) + 1]>>

MaxDateDays == 100000000

\* Date.prototype.toISOString of a valid date: YYYY-MM-DDTHH:mm:ss.sssZ, the
\* year with a sign and six digits outside 0..9999
toISOString(day, min) ==
  LET z == day + 719468
      era == z \div 146097
      doe == z - era * 146097
      yoe == (doe - doe \div 1460 + doe \div 36524 - doe \div 146096) \div 365
      doy == doe - (365 * yoe + yoe \div 4 - yoe \div 100)
      mp == (5 * doy + 2) \div 153
      d == doy - (153 * mp + 2) \div 5 + 1
      m == IF mp < 10 THEN mp + 3 ELSE mp - 9
      y == yoe + era * 400 + (IF m <= 2 THEN 1 ELSE 0)
      year == IF y >= 0 /\ y <= 9999 THEN Pad(y, 4)
              ELSE IF y < 0 THEN <<"-">> \o Pad(0 - y, 6) ELSE <<"+">> \o Pad(y, 6)
  IN year \o <<"-">> \o Pad(m, 2) \o <<"-">> \o Pad(d, 2) \o <<"T">>
       \o Pad(min \div 60, 2) \o <<":">> \o Pad(min % 60, 2) \o Chars(":00.000Z")

S_IsoStamp == Chars("2025-08-18T22:15:00Z")
S_KmlStamp == Chars("Sunday, August 17, 2025 4:20 PM")
S_NoStamp == Chars("n/a")

InvalidDate == [valid |-> FALSE, day |-> 0, min |-> 0]

\* the day number of a date of the Gregorian calendar (year 0 or later)
DaysFromCivil(y, m, d) ==
  LET yy == IF m <= 2 THEN y - 1 ELSE y
      era == yy \div 400
      yoe == yy - era * 400
      doy == (153 * (IF m > 2 THEN m - 3 ELSE m + 9) + 2) \div 5 + d - 1
      doe == yoe * 365 + yoe \div 4 - yoe \div 100 + doy
  IN era * 146097 + doe - 719468

\* the words of a date string: what stands between spaces and commas
RECURSIVE DateWords(_, _, _)
DateWords(str, word, words) ==
  IF str = <<>> THEN (IF word = <<>> THEN words ELSE Append(words, word))
  ELSE IF IsSpace(Head(str)) \/ Head(str) = ","
       THEN DateWords(Tail(str), <<>>, IF word = <<>> THEN words ELSE Append(words, word))
       ELSE DateWords(Tail(str), Append(word, Head(str)), words)

\* a month name is known by its first three letters
MONTHS == <<"jan", "feb", "mar", "apr", "may", "jun", "jul", "aug", "sep", "oct", "nov", "dec">>
MonthNumber(word) ==
  IF Len(word) >= 3 /\ \E k \in DOMAIN MONTHS : Chars(MONTHS[k]) = ToLowerCase(SubSeq(word, 1, 3))
  THEN CHOOSE k \in DOMAIN MONTHS : Chars(MONTHS[k]) = ToLowerCase(SubSeq(word, 1, 3))
  ELSE 0

\* minutes west of Greenwich of a zone word GMT-hhmm
ZoneMinutes(word) ==
  IF Len(word) = 8 /\ SubSeq(word, 1, 4) = Chars("GMT-") /\ AllDigits(SubSeq(word, 5, 8))
  THEN DigitsVal(SubSeq(word, 5, 6)) * 60 + DigitsVal(SubSeq(word, 7, 8))
  ELSE 0 - 1

\* Date.parse of "<weekday>, <month> <d>, <yyyy> <h>:<mm> <AM|PM>[ GMT-hhmm]":
\* the weekday is not checked against the date; without a zone the time is
\* read in the server's zone, UTC.  w are the words of the string.
LongDateOf(w) ==
  IF Len(w) \notin {6, 7} THEN InvalidDate
  ELSE IF \/ MonthNumber(w[2]) = 0
          \/ w[3] = <<>> \/ ~AllDigits(w[3]) \/ Len(w[3]) > 2
          \/ Len(w[4]) # 4 \/ ~AllDigits(w[4])
          \/ Len(w[5]) \notin {4, 5} \/ w[5][Len(w[5]) - 2] # ":"
          \/ ~AllDigits(SubSeq(w[5], 1, Len(w[5]) - 3))
          \/ ~AllDigits(SubSeq(w[5], Len(w[5]) - 1, Len(w[5])))
          \/ ToLowerCase(w[6]) \notin {<<"a", "m">>, <<"p", "m">>}
          \/ (Len(w) = 7 /\ ZoneMinutes(w[7]) < 0)
       THEN InvalidDate
  ELSE IF \/ DigitsVal(w[3]) \notin 1..31
          \/ DigitsVal(SubSeq(w[5], 1, Len(w[5]) - 3)) \notin 1..12
          \/ DigitsVal(SubSeq(w[5], Len(w[5]) - 1, Len(w[5]))) > 59
       THEN InvalidDate
  ELSE LET hour == (DigitsVal(SubSeq(w[5], 1, Len(w[5]) - 3)) % 12)
                     + (IF ToLowerCase(w[6]) = <<"p", "m">> THEN 12 ELSE 0)
           utc == hour * 60 + DigitsVal(SubSeq(w[5], Len(w[5]) - 1, Len(w[5])))
                    + (IF Len(w) = 7 THEN ZoneMinutes(w[7]) ELSE 0)
       IN [valid |-> TRUE,
           day |-> DaysFromCivil(DigitsVal(w[4]), MonthNumber(w[2]), DigitsVal(w[3]))
                     + utc \div 1440,
           min |-> utc % 1440]

ParseLongDate(str) ==
  CHOOSE r \in {LongDateOf(w) : w \in {DateWords(str, <<>>, <<>>)}} : TRUE

\* new Date(v): of a string, what Date.parse makes of it (the ISO stamp of
\* the feeds and the long dates of the KML descriptions, one without a zone
\* read in the server's zone, UTC; any other text is an invalid date); of a
\* number, that epoch when it is in range
DateOf(v) ==
  IF v.t = "num"
  THEN IF v.n >= 0 - MaxDateDays /\ v.n <= MaxDateDays
       THEN [valid |-> TRUE, day |-> v.n, min |-> 0] ELSE InvalidDate
  ELSE IF v.t = "null" THEN [valid |-> TRUE, day |-> 0, min |-> 0]
  ELSE IF v.t = "str" /\ v.s = S_IsoStamp THEN [valid |-> TRUE, day |-> 20318, min |-> 1335]
  ELSE IF v.t = "str" /\ v.s = S_KmlStamp THEN [valid |-> TRUE, day |-> 20317, min |-> 980]
  ELSE IF v.t = "str" /\ v.s = S_KmlStamp \o Chars(" GMT-0700")
       THEN [valid |-> TRUE, day |-> 20317, min |-> 1400]
  ELSE IF v.t = "str" /\ v.s = S_KmlStamp \o Chars(" GMT-0800")
       THEN [valid |-> TRUE, day |-> 20318, min |-> 20]
  ELSE IF v.t = "str" THEN ParseLongDate(v.s)
  ELSE InvalidDate

\* the outcome of a call that throws a RangeError
Thrown == [t |-> "throw", s |-> <<>>, n |-> 0]

\* new Date(ts).toISOString(): a RangeError for an invalid date
DateToISO(ts) ==
  IF DateOf(ts).valid THEN Str(toISOString(DateOf(ts).day, DateOf(ts).min)) ELSE Thrown

\* isNaN(d.getTime()) ? undefined : d.toISOString()
DateToISOOrUndefined(ts) ==
  IF DateOf(ts).valid THEN Str(toISOString(DateOf(ts).day, DateOf(ts).min)) ELSE Undefined

\* nashville.js toISO(ts)
toISO(ts) ==
  IF IsNullish(ts) THEN Undefined
  ELSE IF ts.t \in {"num", "nan"} THEN DateToISO(ts)
  ELSE IF ts.t = "str" THEN DateToISOOrUndefined(ts)
  ELSE Undefined

\* pdx.js safeISO(ts)
safeISO(ts) ==
  IF IsFalsy(ts) THEN Undefined
  ELSE IF ts.t = "num" THEN DateToISO(ts)
  ELSE DateToISOOrUndefined(ts)

\* sf.js toISO(ts)
sfToISO(ts) == IF IsFalsy(ts) THEN Undefined ELSE DateToISOOrUndefined(ts)

(***************************************************************************)
(* Upstream feeds                                                          *)
(***************************************************************************)
S_5thAve == <<"5","t","h"," ","A","v","e">>
S_5thAveSp == <<"5","t","h"," "," "," ","a","v","e">>
S_MainSt == <<"M","a","i","n"," ","S","t">>

\* GeoJSON features of the nashville feed: properties, and geometry.coordinates
\* as [lon, lat] (<<>> when the feature has no point); a feature list can hold
\* null
NashvilleFeatures ==
  { [properties |-> [Address |-> Str(S_5thAve), CityName |-> Undefined,
                     GlobalID |-> Str(Chars("G-1")), Headline |-> Str(Chars("Fire")),
                     CallReceivedTime |-> Str(S_IsoStamp)],
     geometry |-> <<>>],
    [properties |-> [Address |-> Str(S_5thAveSp), CityName |-> Str(<<"E","A","S","T">>),
                     IncidentNumber |-> Str(<<>>), Headline |-> Str(<<>>)],
     geometry |-> <<>>],
    [properties |-> [Address |-> Str(S_5thAve), CityName |-> Str(<<"M","e","m","p","h","i","s">>),
                     OBJECTID |-> Num(7), CALL_TYPE |-> Str(Chars("Alarm")),
                     CallReceivedTime |-> Num(20318)],
     geometry |-> <<>>],
    [properties |-> [Address |-> Null, CityName |-> Undefined,
                     CallReceivedTime |-> Str(S_NoStamp)],
     geometry |-> <<Num(-867816), Num(378995)>>],
    [properties |-> [Address |-> Null, CityName |-> Undefined,
                     LastUpdated |-> Num(MaxDateDays + 1)],
     geometry |-> <<>>],
    Null }

\* rows of the pdx feed: a placemark, JSON row or table row as its coordinates,
\* address, and where it has them its id, name (the placemark's title, the
\* type of a JSON row, the problem cell) and time stamp; a JSON array or
\* placemark list can hold null
PdxRawRows ==
  { [lat |-> Undefined, lon |-> Undefined, address |-> Str(S_5thAve),
     id |-> Str(Chars("PP1")), name |-> Str(Chars("Theft at 5th Ave")),
     time |-> Str(S_KmlStamp)],
    [lat |-> Undefined, lon |-> Undefined, address |-> Str(S_5thAveSp)],
    [lat |-> Undefined, lon |-> Undefined, address |-> Str(S_MainSt),
     id |-> Str(<<>>), time |-> Str(S_IsoStamp)],
    [lat |-> Str(<<"9","1">>), lon |-> Str(<<"-","1","2","2",".","6">>), address |-> Str(S_5thAve),
     name |-> Str(Chars("Fire")), time |-> Str(S_NoStamp)],
    [lat |-> Undefined, lon |-> Undefined, address |-> Null],
    [lat |-> Str(Chars("45.5")), lon |-> Str(Chars("-122.6")), address |-> Null,
     time |-> Str(S_IsoStamp)],
    Null }


(***************************************************************************)
(* The dedupe step shared by nashville and pdx:                            *)
(*   for (const row of ...) { const norm = normalizeAddress(address);      *)
(*     if (norm && !map.has(norm)) map.set(norm, address); }               *)
(* addrs are the addresses of the rows looped over, in row order; a falsy  *)
(* address is skipped.  The result is the key list and the map.            *)
(***************************************************************************)
\* a variant of the dedupe step without the !map.has(norm) test
\* a variant of the merge key: the address as it stands
MergeKey_Raw(address) == StringOrEmpty(address)

\* the key the places loop looks a record's result up by:
\* geocodeResults.get(normalizeAddress(r.displayAddress)) in nashville,
\* geoResults.get(normalizeAddress(address)) in pdx
MergeKey(address) == normalizeAddress(address)

RECURSIVE UniqueAddrs_NoDedupe(_, _, _)
UniqueAddrs_NoDedupe(addrs, keys, map) ==
  IF addrs = <<>> THEN [keys |-> keys, map |-> map]
  ELSE LET a == Head(addrs)
           norm == normalizeAddress(a)
       IN IF ~IsFalsy(a) /\ norm # <<>>
          THEN UniqueAddrs_NoDedupe(Tail(addrs), Append(keys, norm), MapSet(map, norm, a.s))
          ELSE UniqueAddrs_NoDedupe(Tail(addrs), keys, map)

RECURSIVE UniqueAddrs(_, _, _)
UniqueAddrs(addrs, keys, map) ==
  IF addrs = <<>> THEN [keys |-> keys, map |-> map]
  ELSE LET a == Head(addrs)
           norm == normalizeAddress(a)
       IN IF ~IsFalsy(a) /\ norm # <<>> /\ ~MapHas(map, norm)
          THEN UniqueAddrs(Tail(addrs), Append(keys, norm), MapSet(map, norm, a.s))
          ELSE UniqueAddrs(Tail(addrs), keys, map)

EmptyAddrMap == [k \in {} |-> <<>>]

(***************************************************************************)
(* adapters/nashville.js: fetchCity                                        *)
(***************************************************************************)
\* Math.random().toString(36).slice(2): some string of digits and letters
S_RandomId == Chars("k3x9")
S_Incident == Chars("Incident")

\* a whole number n >= 0 in decimal
RECURSIVE DecimalDigits(_)
DecimalDigits(n) ==
  IF n < 10 THEN <<Digits[n + 1]>> ELSE DecimalDigits(n \div 10) \o <<Digits[(n % 10) + 1]>>

\* String(v) for a string, a whole number, null or undefined
ToStr(v) ==
  IF v.t = "str" THEN v.s
  ELSE IF v.t = "num" THEN (IF v.n < 0 THEN <<"-">> \o DecimalDigits(0 - v.n)
                            ELSE DecimalDigits(v.n))
  ELSE IF v.t = "nan" THEN Chars("NaN")
  ELSE IF v.t = "null" THEN Chars("null") ELSE Chars("undefined")

extractId(props) ==
  ToStr(Coalesce(props, <<"GlobalID", "GLOBALID", "OBJECTID", "objectid", "IncidentNumber",
                          "Incident_No", "CallID", "id">>, Str(S_RandomId)))

\* extractName(props, extractCategory(props))
extractName(props) ==
  Coalesce(props, <<"Headline", "Title", "IncidentDescription", "CALL_TYPE", "Event_Type",
                    "CallType", "Description", "TYPE">>, Str(S_Incident))

extractUpdatedAt(props) ==
  toISO(Coalesce(props, <<"LastUpdated", "LastUpdate", "UpdatedAt">>, Undefined))

extractCallTimeReceived(props) ==
  toISO(Coalesce(props, <<"CallReceivedTime", "call_received", "Call_Received", "datetime">>,
                 Undefined))

\* features.map throws when toISO throws on a feature's timestamp
NashvilleThrows(features) ==
  \E i \in DOMAIN features :
     \/ extractUpdatedAt(Get(features[i], "properties")) = Thrown
     \/ extractCallTimeReceived(Get(features[i], "properties")) = Thrown

\* const prelim = features.map(f => ...), props being f?.properties || {}
NashvillePrelim(features) ==
  [i \in DOMAIN features |->
     LET props == Get(features[i], "properties")
     IN [props |-> props,
         id |-> extractId(props),
         name |-> extractName(props),
         displayAddress |->
           Str(buildDisplayAddress(extractAddress(props), extractCityName(props))),
         callTimeReceived |-> extractCallTimeReceived(props)]]

NashvilleUnique(prelim) ==
  UniqueAddrs([i \in DOMAIN prelim |-> prelim[i].displayAddress], <<>>, EmptyAddrMap)

\* g && finite && haversineMiles(g, NASHVILLE_CENTER) > MAX_MILES
TooFar(g) == /\ IsFinite(g.lat) /\ IsFinite(g.lon)
             /\ haversineMiles(g, NASHVILLE_CENTER) > MaxMilli
\* a variant that accepts any finite retry result, whatever its distance
WithinRadius_AnyFinite(g) == IsFinite(g.lat) /\ IsFinite(g.lon)

\* g2 && finite && haversineMiles(g2, NASHVILLE_CENTER) <= MAX_MILES
WithinRadius(g) == /\ IsFinite(g.lat) /\ IsFinite(g.lon)
                   /\ haversineMiles(g, NASHVILLE_CENTER) <= MaxMilli

\* What the nashville worker does when the geocode call c it awaits has
\* settled; first is its g while it awaits the retry.
\*   skip: the catch block, nothing recorded     retry: geocode(forced)
\*   set:  geocodeResults.set(norm, g)
NashvilleWorker(c, first) ==
  IF c.attempt = "first"
  THEN IF c.state = "err" THEN [kind |-> "skip", g |-> NoData]
       ELSE IF TooFar(c.data) THEN [kind |-> "retry", g |-> c.data]
       ELSE [kind |-> "set", g |-> c.data]
  ELSE IF c.state = "err" THEN [kind |-> "skip", g |-> NoData]
       ELSE IF WithinRadius(c.data) THEN [kind |-> "set", g |-> c.data]
       ELSE [kind |-> "set", g |-> first]

\* the loop building places: a row is pushed when its query has a finite result
RECURSIVE NashvillePlaces(_, _, _)
NashvillePlaces(prelim, results, i) ==
  IF i > Len(prelim) THEN <<>>
  ELSE LET r == prelim[i]
           norm == IF ~IsFalsy(r.displayAddress)
                   THEN MergeKey(r.displayAddress) ELSE <<>>
           has == norm # <<>> /\ MapHas(results, norm)
           g == IF has THEN results[norm] ELSE NoData
       IN IF ~has \/ ~IsFinite(g.lat) \/ ~IsFinite(g.lon)
          THEN NashvillePlaces(prelim, results, i + 1)
          ELSE <<[src |-> i, id |-> Str(r.id), name |-> Str(ToStr(r.name)),
                  lat |-> ToNumber(g.lat), lon |-> ToNumber(g.lon),
                  address |-> r.displayAddress,
                  callTimeReceived |-> r.callTimeReceived]>>
               \o NashvillePlaces(prelim, results, i + 1)

(***************************************************************************)
(* adapters/pdx.js: fetchCity                                              *)
(***************************************************************************)
\* parseKML / parseHTMLTable: a coordinate is kept when it is a finite number
KmlCoord(v) ==
  LET x == IF IsFalsy(v) THEN Undefined ELSE ToNumber(v)
  IN IF IsFinite(x) THEN x ELSE Undefined
\* a || b
OrElse(a, b) == IF IsFalsy(a) THEN b ELSE a

\* s.indexOf(p), counted from 1; 0 when p does not occur
IndexOf(s, p) ==
  IF Includes(s, p)
  THEN CHOOSE i \in 1..(Len(s) - Len(p) + 1) :
                                 /\ SubSeq(s, i, i + Len(p) - 1) = p
                                 /\ \A j \in 1..(i - 1) : SubSeq(s, j, j + Len(p) - 1) # p
  ELSE 0

\* s.split(" at ")[0]
BeforeAt(s) == IF IndexOf(s, Chars(" at ")) = 0 THEN s
               ELSE SubSeq(s, 1, IndexOf(s, Chars(" at ")) - 1)

\* tryParse(stamp) of parseKmlDescription and the toISOString that follows:
\* the stamp is read as Pacific daylight time, else as Pacific standard time
tryParse(stamp) ==
  IF DateOf(Str(stamp \o Chars(" GMT-0700"))).valid
  THEN DateToISO(Str(stamp \o Chars(" GMT-0700")))
  ELSE DateToISOOrUndefined(Str(stamp \o Chars(" GMT-0800")))

\* every read of a placemark is pm?.x: a null placemark reads as undefined;
\* address and time are the cleanAddress and the time stamp that
\* parseKmlDescription finds in the description
parseKMLRow(r) ==
  [id |-> Str(ToStr(OrElse(Get(r, "id"), OrElse(Get(r, "name"), Str(S_RandomId))))),
   name |-> OrElse(Str(Trim(BeforeAt(ToStr(OrElse(Get(r, "name"), Str(S_Incident)))))),
                   Str(S_Incident)),
   lat |-> KmlCoord(Get(r, "lat")), lon |-> KmlCoord(Get(r, "lon")),
   address |-> IF IsFalsy(Get(r, "address")) THEN Undefined ELSE r.address,
   updatedAt |-> IF Get(r, "time").t = "str" THEN tryParse(Get(r, "time").s) ELSE Undefined]
\* a table row: the cells are text, the id is random
parseHTMLRow(r) ==
  [id |-> Str(S_RandomId),
   name |-> OrElse(Get(r, "name"), Str(S_Incident)),
   lat |-> KmlCoord(Get(r, "lat")), lon |-> KmlCoord(Get(r, "lon")),
   address |-> IF IsNullish(Get(r, "address")) THEN Undefined ELSE r.address,
   updatedAt |-> safeISO(Get(r, "time"))]
\* parseJSONVariant: lat: Number(lat), address: addressRaw ? String(addressRaw) : null
parseJSONRow(r) ==
  [id |-> Str(ToStr(Coalesce(r, <<"id", "objectid", "OBJECTID", "GlobalID", "GLOBALID",
                                  "callid", "CallID">>, Str(S_RandomId)))),
   name |-> Str(ToStr(OrElse(Get(r, "name"), Str(S_Incident)))),
   lat |-> ToNumber(IF IsNullish(r.lat) THEN Undefined ELSE r.lat),
   lon |-> ToNumber(IF IsNullish(r.lon) THEN Undefined ELSE r.lon),
   address |-> IF IsFalsy(r.address) THEN Null ELSE r.address,
   updatedAt |-> safeISO(Get(r, "time"))]

\* parseJSONVariant(json): rows.map(r => ...) reads r.id of every element, which
\* throws a TypeError on a null element; safeISO can throw a RangeError
parseJSONVariant(rs) ==
  IF \E i \in DOMAIN rs : rs[i] = Null \/ safeISO(Get(rs[i], "time")) = Thrown
  THEN [threw |-> TRUE, rows |-> <<>>]
  ELSE [threw |-> FALSE, rows |-> [i \in DOMAIN rs |-> parseJSONRow(rs[i])]]

\* the sniffing of fetchCity: KML, else JSON, else an HTML table, else nothing;
\* JSON.parse and parseJSONVariant run in one try block, whose catch leaves no
\* rows for a text that is not an HTML document
PdxParse(body) ==
  CASE body.kind = "kml" -> [i \in DOMAIN body.rows |-> parseKMLRow(body.rows[i])]
    [] body.kind = "json" -> parseJSONVariant(body.rows).rows
    [] body.kind = "html" -> [i \in DOMAIN body.rows |-> parseHTMLRow(body.rows[i])]
    [] OTHER -> <<>>

\* if (r.address) r.address = withCityState(r.address)
PdxTidy(rs) ==
  [i \in DOMAIN rs |->
     IF IsFalsy(rs[i].address) THEN rs[i]
     ELSE [rs[i] EXCEPT !.address = Str(withCityState(rs[i].address))]]

HasCoords(r) == IsFinite(r.lat) /\ IsFinite(r.lon)
\* rows.filter(r => !(finite lat && finite lon) && r.address)
PdxNeedsGeo(r) == ~HasCoords(r) /\ ~IsFalsy(r.address)

PdxUnique(rs) ==
  LET need == SelectSeq(rs, PdxNeedsGeo)
  IN UniqueAddrs([i \in DOMAIN need |-> need[i].address], <<>>, EmptyAddrMap)

\* a variant of the pdx worker that records a failed lookup's empty result
PdxWorker_RecordsFailure(c) == [kind |-> "set", g |-> c.data]

\* the pdx worker: try { geoResults.set(norm, await geocode(original)) } catch {}
PdxWorker(c) ==
  IF c.state = "err" THEN [kind |-> "skip", g |-> NoData]
  ELSE [kind |-> "set", g |-> c.data]

RECURSIVE PdxPlaces(_, _, _)
PdxPlaces(rs, results, i) ==
  IF i > Len(rs) THEN <<>>
  ELSE LET r == rs[i]
           look == ~HasCoords(r) /\ ~IsFalsy(r.address)
           norm == MergeKey(r.address)
           found == look /\ MapHas(results, norm)
           g == IF found THEN results[norm] ELSE NoData
           lat == IF found THEN g.lat ELSE r.lat
           lon == IF found THEN g.lon ELSE r.lon
           address == IF found /\ ~IsFalsy(g.formatted) THEN g.formatted ELSE r.address
       IN IF ~IsFinite(lat) \/ ~IsFinite(lon)
          THEN PdxPlaces(rs, results, i + 1)
          ELSE <<[src |-> i, id |-> r.id,
                  name |-> IF IsFalsy(r.name) THEN Str(S_Incident) ELSE Str(ToStr(r.name)),
                  lat |-> ToNumber(lat), lon |-> ToNumber(lon),
                  address |-> address, callTimeReceived |-> r.updatedAt]>>
               \o PdxPlaces(rs, results, i + 1)


(***************************************************************************)
(* adapters/sf.js: extractCoords and the places loop                       *)
(***************************************************************************)
\* A location container of a row (row.intersection_point, row.location, ...):
\* absent, a string (WKT), or an object with coordinates and/or latitude and
\* longitude.
NoLoc == [present |-> FALSE, wkt |-> Undefined, coordinates |-> <<>>,
          latitude |-> Undefined, longitude |-> Undefined]
PointLoc(lon, lat) == [NoLoc EXCEPT !.present = TRUE, !.coordinates = <<lon, lat>>]
LatLonLoc(lat, lon) == [NoLoc EXCEPT !.present = TRUE, !.latitude = lat, !.longitude = lon]
WktLoc(s) == [NoLoc EXCEPT !.present = TRUE, !.wkt = Str(s)]

\* the length of the longest prefix of s matching \d+
RECURSIVE DigitRunLen(_)
DigitRunLen(s) == IF s # <<>> /\ IsDigit(Head(s)) THEN 1 + DigitRunLen(Tail(s)) ELSE 0

\* the length of the prefix of v matching (?:\.\d+)?
WktFractionLen(v) ==
  IF v # <<>> /\ Head(v) = "." /\ DigitRunLen(Tail(v)) > 0
  THEN 1 + DigitRunLen(Tail(v)) ELSE 0
\* the length of the prefix of u matching \d+(?:\.\d+)?, d being its \d+ part
WktDigitsLen(u, d) ==
  IF d = 0 THEN 0 ELSE d + WktFractionLen(SubSeq(u, d + 1, Len(u)))
\* the same after a sign of length sign
WktSignedLen(s, sign, n) == IF n = 0 THEN 0 ELSE sign + n
WktUnsignedLen(u) == WktDigitsLen(u, DigitRunLen(u))
\* the length of the prefix of s matching -?\d+(?:\.\d+)?, 0 when none does
WktNumberLen(s) ==
  IF s # <<>> /\ Head(s) = "-"
  THEN WktSignedLen(s, 1, WktUnsignedLen(Tail(s)))
  ELSE WktSignedLen(s, 0, WktUnsignedLen(s))

\* /POINT\s*\(\s*(-?\d+(?:\.\d+)?)\s+(-?\d+(?:\.\d+)?)\s*\)/i, piece by piece;
\* each piece gives the two captured numbers, or <<>> when it does not match
\*   \s*\)  after the second number
WktClose(m1, m2, e) == IF e # <<>> /\ Head(e) = ")" THEN <<m1, m2>> ELSE <<>>
\*   (-?\d+(?:\.\d+)?) at the head of d, of length n2
WktSecondLen(m1, d, n2) ==
  IF n2 > 0 THEN WktClose(m1, SubSeq(d, 1, n2), TrimStart(SubSeq(d, n2 + 1, Len(d))))
  ELSE <<>>
WktSecond(m1, d) == WktSecondLen(m1, d, WktNumberLen(d))
\*   \s+ at the head of c
WktGap(m1, c) == IF c # <<>> /\ IsSpace(Head(c)) THEN WktSecond(m1, TrimStart(c)) ELSE <<>>
\*   (-?\d+(?:\.\d+)?) at the head of b, of length n1
WktFirstLen(b, n1) ==
  IF n1 > 0 THEN WktGap(SubSeq(b, 1, n1), SubSeq(b, n1 + 1, Len(b))) ELSE <<>>
WktFirst(b) == WktFirstLen(b, WktNumberLen(b))
\*   \(\s* at the head of a
WktOpen(a) == IF a # <<>> /\ Head(a) = "(" THEN WktFirst(TrimStart(Tail(a))) ELSE <<>>
\*   POINT\s* at index p of s
WktMatchAt(s, p) ==
  IF Len(s) >= p + 4 /\ ToLowerCase(SubSeq(s, p, p + 4)) = <<"p", "o", "i", "n", "t">>
  THEN WktOpen(TrimStart(SubSeq(s, p + 5, Len(s))))
  ELSE <<>>

\* the first index from p on where the pattern matches, 0 when there is none
RECURSIVE WktFirstIndex(_, _)
WktFirstIndex(s, p) ==
  IF p > Len(s) THEN 0
  ELSE IF WktMatchAt(s, p) # <<>> THEN p ELSE WktFirstIndex(s, p + 1)

WktMatchFrom(s, p) == IF p = 0 THEN <<>> ELSE WktMatchAt(s, p)
\* loc.match(...): the leftmost match, as [lon, lat] text
WktMatch(s) == WktMatchFrom(s, WktFirstIndex(s, 1))

NoCoords == [lat |-> Undefined, lon |-> Undefined]

\* if (Number.isFinite(lat) && Number.isFinite(lon)) return { lat, lon }, else
\* what follows
FiniteOr(lat, lon, otherwise) ==
  IF IsFinite(lat) /\ IsFinite(lon) THEN [lat |-> lat, lon |-> lon] ELSE otherwise

\* the WKT branch: m is the match, [lon, lat] as text
SfFromMatch(m) ==
  IF m = <<>> THEN NoCoords
  ELSE FiniteOr(ToNumber(Str(m[2])), ToNumber(Str(m[1])), NoCoords)
SfFromWkt(loc) == IF loc.wkt.t = "str" THEN SfFromMatch(WktMatch(loc.wkt.s)) ELSE NoCoords
\* the { latitude, longitude } branch
SfFromLatLon(loc) ==
  FiniteOr(ToNumber(loc.latitude), ToNumber(loc.longitude), SfFromWkt(loc))
\* the GeoJSON { coordinates: [lon, lat] } branch
SfFromPoint(loc) ==
  IF loc.wkt.t # "str" /\ Len(loc.coordinates) >= 2
  THEN FiniteOr(ToNumber(loc.coordinates[2]), ToNumber(loc.coordinates[1]),
                SfFromLatLon(loc))
  ELSE SfFromLatLon(loc)

\* what one candidate container yields, NoCoords when the loop moves on
SfFromLoc(loc) ==
  IF ~loc.present \/ (loc.wkt.t = "str" /\ loc.wkt.s = <<>>) THEN NoCoords
  ELSE SfFromPoint(loc)

SfCandidates == <<"intersection_point", "location", "point", "location_1", "geom",
                   "geometry">>

SfContainer(row, k) == IF k \in DOMAIN row THEN row[k] ELSE NoLoc

\* for (const loc of candidates): the first container that yields coordinates
RECURSIVE SfFirstLoc(_, _)
SfFirstLoc(row, keys) ==
  IF keys = <<>> THEN NoCoords
  ELSE IF SfFromLoc(SfContainer(row, Head(keys))) # NoCoords
       THEN SfFromLoc(SfContainer(row, Head(keys)))
       ELSE SfFirstLoc(row, Tail(keys))

extractCoords(row) ==
  FiniteOr(ToNumber(row.latitude), ToNumber(row.longitude),
           SfFirstLoc(row, SfCandidates))

\* s.split(sep) for a literal sep
RECURSIVE SplitOn(_, _)
SplitOn(str, sep) ==
  IF IndexOf(str, sep) = 0 THEN <<str>>
  ELSE <<SubSeq(str, 1, IndexOf(str, sep) - 1)>>
         \o SplitOn(SubSeq(str, IndexOf(str, sep) + Len(sep), Len(str)), sep)

\* s.split(/\s+/)
RECURSIVE SplitWs(_)
SplitWs(str) ==
  IF \A i \in DOMAIN str : ~IsSpace(str[i]) THEN <<str>>
  ELSE LET i == CHOOSE k \in DOMAIN str :
                  IsSpace(str[k]) /\ \A j \in 1..(k - 1) : ~IsSpace(str[j])
       IN <<SubSeq(str, 1, i - 1)>> \o SplitWs(TrimStart(SubSeq(str, i, Len(str))))

\* sf.js s(v): (v ?? "").toString().trim()
TrimmedString(v) == IF IsNullish(v) THEN <<>> ELSE Trim(ToStr(v))

UPPER_DIRECTIONS == {Chars("N"), Chars("S"), Chars("E"), Chars("W"),
                     Chars("NE"), Chars("NW"), Chars("SE"), Chars("SW")}
\* the keys of TOKEN_MAP; each maps to itself with its first letter in capitals
TOKEN_MAP == {Chars("st"), Chars("street"), Chars("ave"), Chars("avenue"), Chars("blvd"),
              Chars("boulevard"), Chars("rd"), Chars("road"), Chars("dr"), Chars("drive"),
              Chars("ct"), Chars("court"), Chars("ln"), Chars("lane"), Chars("ter"),
              Chars("terrace"), Chars("pl"), Chars("place"), Chars("pkwy"), Chars("parkway"),
              Chars("hwy"), Chars("highway"), Chars("way")}
LOWER_SMALL == {Chars("of"), Chars("and"), Chars("the"), Chars("at"), Chars("de"),
                Chars("la"), Chars("del")}

capFirst(w) == IF w = <<>> THEN w ELSE <<UpperChar(Head(w))>> \o ToLowerCase(Tail(w))

\* titleCaseWord(w, idx), and ws.map(titleCaseWord).join(sep) from word i on
RECURSIVE titleCaseWord(_, _), TitleWords(_, _, _)
titleCaseWord(w, idx) ==
  IF ToUpperCase(w) \in UPPER_DIRECTIONS THEN ToUpperCase(w)
  ELSE IF ToLowerCase(w) \in TOKEN_MAP THEN capFirst(ToLowerCase(w))
  ELSE IF ToLowerCase(w) \in LOWER_SMALL /\ idx > 0 THEN ToLowerCase(w)
  ELSE IF Len(w) >= 2 /\ SubSeq(ToLowerCase(w), 1, 2) = Chars("o'")
       THEN Chars("O'") \o capFirst(SubSeq(ToLowerCase(w), 3, Len(w)))
  ELSE IF Len(w) >= 3 /\ SubSeq(ToLowerCase(w), 1, 2) = Chars("mc") /\ IsLower(LowerChar(w[3]))
       THEN Chars("Mc") \o capFirst(SubSeq(ToLowerCase(w), 3, Len(w)))
  ELSE IF Includes(w, <<"-">>) THEN TitleWords(SplitOn(w, <<"-">>), 1, <<"-">>)
  ELSE capFirst(ToLowerCase(w))
TitleWords(ws, i, sep) ==
  IF i > Len(ws) THEN <<>>
  ELSE (IF i > 1 THEN sep ELSE <<>>) \o titleCaseWord(ws[i], i - 1)
         \o TitleWords(ws, i + 1, sep)

titleCaseStreet(str) == TitleWords(SplitWs(Trim(str)), 1, <<" ">>)

RECURSIVE DropBackslashes(_)
DropBackslashes(str) ==
  IF str # <<>> /\ Head(str) = "\\" THEN DropBackslashes(Tail(str)) ELSE str

\* str.replace(/\s*\\+\s*/g, " / ")
RECURSIVE BackslashRuns(_)
BackslashRuns(str) ==
  IF str = <<>> THEN <<>>
  ELSE IF TrimStart(str) # <<>> /\ Head(TrimStart(str)) = "\\"
       THEN <<" ", "/", " ">> \o BackslashRuns(TrimStart(DropBackslashes(TrimStart(str))))
       ELSE <<Head(str)>> \o BackslashRuns(Tail(str))

\* parts.map(titleCaseStreet).join(" / ") from part i on
RECURSIVE TitleStreets(_, _)
TitleStreets(parts, i) ==
  IF i > Len(parts) THEN <<>>
  ELSE (IF i > 1 THEN <<" ", "/", " ">> ELSE <<>>) \o titleCaseStreet(parts[i])
         \o TitleStreets(parts, i + 1)

\* sf.js normalizeIntersection(str)
sfNormalizeIntersection(str) ==
  TitleStreets(SplitOn(SpaceAroundSlash(BackslashRuns(str)), <<" ", "/", " ">>), 1)

prettifyStreet(street) ==
  IF street = <<>> THEN <<>>
  ELSE IF Includes(street, <<"\\">>) \/ Includes(street, <<"/">>)
       THEN sfNormalizeIntersection(street)
       ELSE titleCaseStreet(street)

\* s(pick(r, "address")) || s(pick(r, "intersection_name")) || ... || ""
RECURSIVE bestStreetFromDataset(_, _)
bestStreetFromDataset(r, keys) ==
  IF keys = <<>> THEN <<>>
  ELSE IF TrimmedString(Get(r, Head(keys))) # <<>> THEN TrimmedString(Get(r, Head(keys)))
  ELSE bestStreetFromDataset(r, Tail(keys))

\* addr.replace(/\s+,/g, ",")
RECURSIVE SpaceBeforeComma(_)
SpaceBeforeComma(str) ==
  IF str = <<>> THEN <<>>
  ELSE IF IsSpace(Head(str)) /\ TrimStart(str) # <<>> /\ Head(TrimStart(str)) = ","
       THEN <<",">> \o SpaceBeforeComma(Tail(TrimStart(str)))
       ELSE <<Head(str)>> \o SpaceBeforeComma(Tail(str))

\* addr.replace(/,\s+,/g, ",")
RECURSIVE CommaSpaceComma(_)
CommaSpaceComma(str) ==
  IF str = <<>> THEN <<>>
  ELSE IF /\ Head(str) = "," /\ Len(str) >= 3 /\ IsSpace(str[2])
          /\ TrimStart(Tail(str)) # <<>> /\ Head(TrimStart(Tail(str))) = ","
       THEN <<",">> \o CommaSpaceComma(Tail(TrimStart(Tail(str))))
       ELSE <<Head(str)>> \o CommaSpaceComma(Tail(str))

S_SanFranciscoCA == Chars("San Francisco, CA")

\* sf.js withCityState(addr)
sfWithCityState(addr) ==
  IF addr = <<>> THEN S_SanFranciscoCA
  ELSE IF \/ Includes(ToLowerCase(Trim(CommaSpaceComma(SpaceBeforeComma(addr)))),
                      Chars("san francisco"))
          \/ Includes(ToLowerCase(Trim(CommaSpaceComma(SpaceBeforeComma(addr)))), Chars(" ca"))
          \/ Includes(ToLowerCase(Trim(CommaSpaceComma(SpaceBeforeComma(addr)))),
                      Chars("california"))
       THEN Trim(CommaSpaceComma(SpaceBeforeComma(addr)))
       ELSE Trim(CommaSpaceComma(SpaceBeforeComma(addr))) \o <<",", " ">> \o S_SanFranciscoCA

\* n.toFixed(5) of a coordinate (counted in 1/10000 degree)
ToFixed5(n) ==
  (IF n < 0 THEN <<"-">> ELSE <<>>)
    \o DecimalDigits((IF n < 0 THEN 0 - n ELSE n) \div 10000) \o <<".">>
    \o Pad((IF n < 0 THEN 0 - n ELSE n) % 10000, 4) \o <<"0">>

\* const incidentTypeName = s(pick(r, "call_type_final_desc", ...))
SfTypeName(r) ==
  TrimmedString(Coalesce(r, <<"call_type_final_desc", "call_type_original_desc", "call_type",
                              "incident_type_description", "description", "problem_type">>,
                         Undefined))
\* const fetchedAt = toISO(pick(r, "call_last_updated_at", ...))
SfFetchedAt(r) ==
  sfToISO(Coalesce(r, <<"call_last_updated_at", "received_datetime", "entry_datetime",
                        "updated_datetime", "dispatch_datetime">>, Undefined))
\* const id = cad || `${incidentTypeName || "Incident"}-${fetchedAt || ""}-${lat}${lon}`
SfId(r, c) ==
  IF TrimmedString(Coalesce(r, <<"cad_number", "cadnumber", "event_number", "id">>,
                            Undefined)) # <<>>
  THEN TrimmedString(Coalesce(r, <<"cad_number", "cadnumber", "event_number", "id">>, Undefined))
  ELSE (IF SfTypeName(r) # <<>> THEN SfTypeName(r) ELSE S_Incident) \o <<"-">>
         \o (IF IsFalsy(SfFetchedAt(r)) THEN <<>> ELSE SfFetchedAt(r).s) \o <<"-">>
         \o ToFixed5(c.lat.n) \o ToFixed5(c.lon.n)

\* the body of the loop of fetchCity for row i (r) with coordinates c: a row
\* without finite coordinates is skipped
SfPlace(i, r, c) ==
  IF ~IsFinite(c.lat) \/ ~IsFinite(c.lon) THEN <<>>
  ELSE <<[src |-> i, id |-> Str(SfId(r, c)),
          name |-> Str(IF SfTypeName(r) # <<>> THEN SfTypeName(r) ELSE S_Incident),
          lat |-> c.lat, lon |-> c.lon,
          address |-> Str(sfWithCityState(
                        IF prettifyStreet(bestStreetFromDataset(r, <<"address",
                             "intersection_name", "intersection", "location_text">>)) # <<>>
                        THEN prettifyStreet(bestStreetFromDataset(r, <<"address",
                               "intersection_name", "intersection", "location_text">>))
                        ELSE S_SanFranciscoCA)),
          callTimeReceived |-> SfFetchedAt(r)]>>

RECURSIVE SfPlaces(_, _)
SfPlaces(rs, i) ==
  IF i > Len(rs) THEN <<>>
  ELSE SfPlace(i, rs[i], extractCoords(rs[i])) \o SfPlaces(rs, i + 1)

\* rows of the sf feed: top-level latitude/longitude, the containers, and
\* where the row has them its street, call type, CAD number and time stamp;
\* the JSON array can hold null
SfRow(lat, lon, ip, loc) ==
  [latitude |-> lat, longitude |-> lon, intersection_point |-> ip, location |-> loc]
SfRawRows ==
  { SfRow(Str(<<"3","7",".","7","7","4","9">>), Str(<<"-","1","2","2",".","4","1","9","4">>), NoLoc, NoLoc)
      @@ [intersection_name |-> Str(Chars("MARKET ST \\ 5TH ST")),
          cad_number |-> Str(Chars("C1")), call_type |-> Str(Chars("fire")),
          received_datetime |-> Str(S_IsoStamp)],
    SfRow(Str(<<"9","1">>), Str(<<"-","1","2","2",".","4","1","9","4">>), NoLoc, NoLoc),
    SfRow(Undefined, Undefined, PointLoc(Num(-1224194), Num(395117)), NoLoc)
      @@ [address |-> Str(Chars(" o'farrell st , SAN FRANCISCO")),
          received_datetime |-> Str(S_NoStamp)],
    SfRow(Undefined, Undefined, LatLonLoc(Str(<<"a","b","c">>), Undefined),
          WktLoc(<<"P","O","I","N","T"," ","(","-","1","2","2",".","4"," ","3","7",".","7",")">>))
      @@ [intersection_name |-> Str(Chars("mcallister-north of E / the embarcadero"))],
    SfRow(Undefined, Undefined, NoLoc, NoLoc),
    Null }

(***************************************************************************)
(* What the upstream request can answer                                    *)
(***************************************************************************)
\* sequences over S of length at most n
SeqUpTo(S, n) == UNION {[1..k -> S] : k \in 0..n}

\* the response bodies of a feed: kind is what the body is (JSON text, a KML or
\* HTML document, other text), rows what it lists
FeedRows(a) == IF a = "nashville" THEN NashvilleFeatures
               ELSE IF a = "pdx" THEN PdxRawRows ELSE SfRawRows
FeedKinds(a) == IF a = "pdx" THEN {"json", "kml", "html"} ELSE {"json"}
Bodies(a) ==
  {[kind |-> "text", rows |-> <<>>]} \cup
  {[kind |-> k, rows |-> rs] : k \in FeedKinds(a), rs \in SeqUpTo(FeedRows(a), MaxRows)}

\* a redirect or error response carries a short body of its own
SmallBodies(a) == {b \in Bodies(a) : Len(b.rows) = 0 \/ (Len(b.rows) = 1 /\ b.kind = "json")}

\* what request(url) gives: a transport failure, or a status and a body
Responses(a) ==
  {[ok |-> FALSE, statusCode |-> 0, body |-> [kind |-> "text", rows |-> <<>>]]} \cup
  {[ok |-> TRUE, statusCode |-> 200, body |-> b] : b \in Bodies(a)} \cup
  {[ok |-> TRUE, statusCode |-> s, body |-> b] : s \in {302}, b \in SmallBodies(a)} \cup
  {[ok |-> TRUE, statusCode |-> s, body |-> [kind |-> "text", rows |-> <<>>]] : s \in {404, 500}}

NoResponse == [ok |-> FALSE, statusCode |-> 0, body |-> [kind |-> "none", rows |-> <<>>]]

(***************************************************************************)
(* fetchCity as a process                                                  *)
(***************************************************************************)
Adapters == {"nashville", "pdx", "sf"}

\* Dedupe of the adapter
UniqueOf(a, rs) == IF a = "nashville" THEN NashvilleUnique(rs) ELSE PdxUnique(rs)
\* rows / prelim of the adapter from a parsed body
RowsOf(a, body) == IF a = "nashville" THEN NashvillePrelim(body.rows)
                   ELSE PdxTidy(PdxParse(body))
WorkerOf(a, c, first) == IF a = "nashville" THEN NashvilleWorker(c, first)
                         ELSE PdxWorker(c)
\* a variant that returns the places last row first
PlacesOf_Reversed(a, rs, results) ==
  LET ps == IF a = "nashville" THEN NashvillePlaces(rs, results, 1)
            ELSE PdxPlaces(rs, results, 1)
  IN [j \in DOMAIN ps |-> ps[Len(ps) + 1 - j]]

PlacesOf(a, rs, results) == IF a = "nashville" THEN NashvillePlaces(rs, results, 1)
                            ELSE PdxPlaces(rs, results, 1)

Caller(r, key, attempt) == [runner |-> r, key |-> key, attempt |-> attempt]

\* fetchCity is called: the URL check, then request(url)
Request ==
  /\ pc = "start"
  /\ IF adapter \in {"nashville", "pdx"} /\ ~urlSet
     THEN pc' = "failed" /\ err' = "config"
     ELSE pc' = "request" /\ err' = err
  /\ UNCHANGED <<fnVars, adapter, urlSet, keySet, resp, fetchVars, calls, cache, now, poolLog>>

\* fetchCity throws
Fail(e) ==
  /\ pc' = "failed"
  /\ err' = e
  /\ UNCHANGED <<fetchVars, calls>>

\* mapWithConcurrency starts: min(limit, n) runners, each taking the next item
\* and calling its worker, which calls geocode, before anything is awaited
StartPool(rs, u) ==
  LET n == Len(u.keys)
      w == PoolWidth(POOL_LIMIT, n)
  IN /\ rows' = rs
     /\ uniqueKeys' = u.keys
     /\ uniqueAddrMap' = u.map
     /\ geocodeResults' = EmptyMap
     /\ nextIdx' = w
     /\ runners' = [r \in 1..w |-> Runner(r, Len(calls) + r)]
     /\ calls' = calls \o [r \in 1..w |->
                    GeocodeBegin(u.map[u.keys[r]], Caller(r, u.keys[r], "first"))]
     /\ places' = places
     /\ pc' = "pool"
     /\ err' = err

\* sf.js after the request: JSON.parse fails or gives no rows and places is
\* empty, or the rows are looped over; fetchCity returns without awaiting more.
\* extractCoords(r) reads r.latitude, which throws a TypeError on a null row.
SfReturn(body) ==
  LET rs == IF body.kind = "json" THEN body.rows ELSE <<>>
  IN IF \E i \in DOMAIN rs : rs[i] = Null THEN Fail("type")
     ELSE /\ rows' = rs
          /\ places' = SfPlaces(rs, 1)
          /\ pc' = "done"
          /\ err' = err
          /\ UNCHANGED <<uniqueKeys, uniqueAddrMap, geocodeResults, nextIdx, runners, calls>>

\* The upstream feed answers (or the transport fails), and fetchCity runs on
\* to its next await: it throws, or parses, dedupes and starts the pool.
UpstreamRespond ==
  /\ pc = "request"
  /\ \E r \in Responses(adapter) :
       /\ resp' = r
       /\ IF ~r.ok \/ r.statusCode >= 400 THEN Fail("upstream")
          ELSE IF adapter = "nashville" /\ r.body.kind # "json" THEN Fail("parse")
          ELSE IF adapter = "nashville" /\ NashvilleThrows(r.body.rows) THEN Fail("range")
          ELSE IF adapter = "sf" THEN SfReturn(r.body)
          ELSE LET rs == RowsOf(adapter, r.body)
               IN StartPool(rs, UniqueOf(adapter, rs))
  /\ UNCHANGED <<fnVars, adapter, urlSet, keySet, cache, now, poolLog>>

\* Runner r's worker is resumed with its settled geocode call: it retries
\* (nashville), or ends, and then the runner takes the next item or returns.
WorkerResume(r) ==
  /\ pc = "pool"
  /\ r \in DOMAIN runners
  /\ runners[r].state = "await"
  /\ calls[runners[r].call].state # "inflight"
  /\ LET rn == runners[r]
         c == calls[rn.call]
         key == uniqueKeys[rn.idx]
         o == WorkerOf(adapter, c, rn.first)
         id == Len(calls) + 1
     IN IF o.kind = "retry"
        THEN /\ calls' = Append(calls, GeocodeBegin(forceNashville(Str(uniqueAddrMap[key])),
                                                    Caller(r, key, "retry")))
             /\ runners' = [runners EXCEPT ![r].call = id, ![r].first = o.g]
             /\ UNCHANGED <<geocodeResults, nextIdx>>
        ELSE /\ geocodeResults' = IF o.kind = "set" THEN MapSet(geocodeResults, key, o.g)
                                  ELSE geocodeResults
             /\ IF HasNext(nextIdx, Len(uniqueKeys))
                THEN LET k2 == uniqueKeys[nextIdx + 1]
                     IN /\ nextIdx' = nextIdx + 1
                        /\ calls' = Append(calls, GeocodeBegin(uniqueAddrMap[k2],
                                                               Caller(r, k2, "first")))
                        /\ runners' = [runners EXCEPT ![r] = Runner(nextIdx + 1, id)]
                ELSE /\ runners' = [runners EXCEPT ![r] = ExitedRunner(rn)]
                     /\ UNCHANGED <<nextIdx, calls>>
  /\ UNCHANGED <<fnVars, adapter, urlSet, keySet, pc, err, resp, rows, uniqueKeys, uniqueAddrMap,
                 cache, now, places, poolLog>>

\* Promise.all(runners) resolves: the places are built and fetchCity returns
Finish ==
  /\ pc = "pool"
  /\ AllExited
  /\ places' = PlacesOf(adapter, rows, geocodeResults)
  /\ pc' = "done"
  /\ UNCHANGED <<fnVars, adapter, urlSet, keySet, err, resp, rows, uniqueKeys, uniqueAddrMap,
                 geocodeResults, nextIdx, runners, calls, cache, now, poolLog>>

Init ==
  /\ adapter \in Adapters
  /\ urlSet \in BOOLEAN
  /\ keySet \in BOOLEAN
  /\ pc = "start"
  /\ err = "none"
  /\ resp = NoResponse
  /\ rows = <<>>
  /\ uniqueKeys = <<>>
  /\ uniqueAddrMap = EmptyAddrMap
  /\ geocodeResults = EmptyMap
  /\ nextIdx = 0
  /\ runners = <<>>
  /\ calls = <<>>
  /\ cache = EmptyMap
  /\ now = 0
  /\ places = <<>>
  /\ poolLog = <<>>
  /\ input = Undefined
  /\ output = Undefined

Next ==
  \/ Request
  \/ UpstreamRespond
  \/ \E id \in DOMAIN calls : ProviderRespond(id)
  \/ \E r \in DOMAIN runners : WorkerResume(r)
  \/ Finish
  \/ Tick

Spec == Init /\ [][Next]_vars

(***************************************************************************)
(* SpecPool: mapWithConcurrency(items, 5, worker) on its own, for item     *)
(* lists longer than the pool is wide.  The worker is any async function:  *)
(* its lookup is in flight until it settles, and the runner that awaits it *)
(* then goes round its loop.  uniqueKeys holds the items.                  *)
(***************************************************************************)
Items(n) == [i \in 1..n |-> i]

\* items[idx]: undefined past the end of the array
ItemAt(idx) == IF idx \in DOMAIN uniqueKeys THEN Num(uniqueKeys[idx]) ELSE Undefined
\* worker(items[idx], idx) is called: calls logs the worker's invocations
Invocation(idx) == [idx |-> idx, item |-> ItemAt(idx), state |-> "inflight"]
\* what the worker resolves with: a value that tells the item it was given
WorkerValue(item) == [of |-> item]
\* results[idx] = v
SetResult(results, idx, v) ==
  [k \in DOMAIN results \cup {idx} |-> IF k = idx THEN v ELSE results[k]]

\* lookups settled so far: those handed out less those still in flight
Settled == nextIdx - Cardinality(InFlight)

\* mapWithConcurrency is called: min(limit, n) runners each take an item and
\* call the worker before anything is awaited
MapStart ==
  /\ pc = "mapstart"
  /\ LET w == PoolWidth(POOL_LIMIT, Len(uniqueKeys))
     IN /\ runners' = [r \in 1..w |-> Runner(r, r)]
        /\ calls' = [r \in 1..w |-> Invocation(r)]
        /\ nextIdx' = w
        /\ poolLog' = [i \in 1..w |-> 0]
  /\ output' = [k \in DOMAIN uniqueKeys |-> Undefined]
  /\ pc' = "map"
  /\ UNCHANGED <<input, adapter, urlSet, keySet, err, resp, rows, uniqueKeys, uniqueAddrMap,
                 geocodeResults, cache, now, places>>

\* what a worker that has awaited one lookup holds while it awaits a second
Retrying == [lat |-> Num(0), lon |-> Num(0), formatted |-> Undefined]

\* the lookup of runner r's worker has settled and the worker awaits a second
\* one for the same item (nashville's retry); a worker awaits two at most
WorkerRetry(r) ==
  /\ pc = "map"
  /\ runners[r].state = "await"
  /\ runners[r].first = NoData
  /\ runners' = [runners EXCEPT ![r].first = Retrying]
  /\ UNCHANGED <<fnVars, adapter, urlSet, keySet, pc, err, resp, rows, uniqueKeys, uniqueAddrMap,
                 geocodeResults, nextIdx, calls, cache, now, places, poolLog>>

\* the last lookup of runner r's worker settles (resolves or rejects)
WorkerSettle(r) ==
  /\ pc = "map"
  /\ runners[r].state = "await"
  /\ runners' = [runners EXCEPT ![r].state = "settled", ![r].first = NoData]
  /\ calls' = [calls EXCEPT ![runners[r].call].state = "ok"]
  /\ UNCHANGED <<fnVars, adapter, urlSet, keySet, pc, err, resp, rows, uniqueKeys, uniqueAddrMap,
                 geocodeResults, nextIdx, cache, now, places, poolLog>>

\* runner r comes back from its await: results[idx] is set, and the while
\* loop takes the next item or ends
RunnerResume(r) ==
  /\ pc = "map"
  /\ runners[r].state = "settled"
  /\ output' = SetResult(output, runners[r].idx, WorkerValue(calls[runners[r].call].item))
  /\ IF HasNext(nextIdx, Len(uniqueKeys))
     THEN /\ nextIdx' = nextIdx + 1
          /\ runners' = [runners EXCEPT ![r] = Runner(nextIdx + 1, Len(calls) + 1)]
          /\ calls' = Append(calls, Invocation(nextIdx + 1))
          /\ poolLog' = Append(poolLog, Settled)
     ELSE /\ runners' = [runners EXCEPT ![r] = ExitedRunner(runners[r])]
          /\ UNCHANGED <<nextIdx, calls, poolLog>>
  /\ UNCHANGED <<input, adapter, urlSet, keySet, pc, err, resp, rows, uniqueKeys, uniqueAddrMap,
                 geocodeResults, cache, now, places>>

\* Promise.all(runners) resolves, and results is returned
MapResolve ==
  /\ pc = "map"
  /\ AllExited
  /\ pc' = "mapdone"
  /\ UNCHANGED <<fnVars, adapter, urlSet, keySet, err, resp, rows, uniqueKeys, uniqueAddrMap,
                 geocodeResults, nextIdx, runners, calls, cache, now, places, poolLog>>

InitPool ==
  /\ adapter = "none"
  /\ urlSet = TRUE
  /\ keySet = TRUE
  /\ pc = "mapstart"
  /\ err = "none"
  /\ resp = NoResponse
  /\ rows = <<>>
  /\ uniqueKeys \in {Items(n) : n \in 0..MaxItems}
  /\ uniqueAddrMap = EmptyAddrMap
  /\ geocodeResults = EmptyMap
  /\ nextIdx = 0
  /\ runners = <<>>
  /\ calls = <<>>
  /\ cache = EmptyMap
  /\ now = 0
  /\ places = <<>>
  /\ poolLog = <<>>
  /\ input = Undefined
  /\ output = Undefined

NextPool ==
  \/ MapStart
  \/ \E r \in DOMAIN runners : WorkerRetry(r)
  \/ \E r \in DOMAIN runners : WorkerSettle(r)
  \/ \E r \in DOMAIN runners : RunnerResume(r)
  \/ MapResolve

SpecPool == InitPool /\ [][NextPool]_vars

\* SpecPool when every lookup settles in the end, and the runtime runs what
\* is ready to run: the synchronous start of the call, the continuation of a
\* settled await, the continuation of Promise.all
PoolFairness ==
  /\ WF_vars(MapStart)
  /\ WF_vars(MapResolve)
  /\ \A r \in 1..POOL_LIMIT :
        /\ WF_vars(r \in DOMAIN runners /\ WorkerSettle(r))
        /\ WF_vars(r \in DOMAIN runners /\ RunnerResume(r))

SpecPoolLive == InitPool /\ [][NextPool]_vars /\ PoolFairness

(***************************************************************************)
(* SpecGeo: services/geocode.js on its own.  Clients call geocode with     *)
(* addresses of their choice while the clock runs past the TTL.            *)
(***************************************************************************)
GeoAddresses == {S_5thAve, S_5thAveSp, S_MainSt}

\* some client calls geocode(a)
GeoCall(a) ==
  /\ pc = "geo"
  /\ Len(calls) < MaxCalls
  /\ calls' = Append(calls, GeocodeBegin(a, Caller(0, normalizeAddress(Str(a)), "client")))
  /\ UNCHANGED <<fnVars, adapter, urlSet, keySet, pc, err, resp, fetchVars, cache, now, poolLog>>

InitGeo ==
  /\ adapter = "none"
  /\ urlSet = TRUE
  /\ keySet \in BOOLEAN
  /\ pc = "geo"
  /\ err = "none"
  /\ resp = NoResponse
  /\ rows = <<>>
  /\ uniqueKeys = <<>>
  /\ uniqueAddrMap = EmptyAddrMap
  /\ geocodeResults = EmptyMap
  /\ nextIdx = 0
  /\ runners = <<>>
  /\ calls = <<>>
  /\ cache = EmptyMap
  /\ now = 0
  /\ places = <<>>
  /\ poolLog = <<>>
  /\ input = Undefined
  /\ output = Undefined

NextGeo ==
  \/ \E a \in GeoAddresses : GeoCall(a)
  \/ \E id \in DOMAIN calls : ProviderRespond(id)
  \/ Tick

SpecGeo == InitGeo /\ [][NextGeo]_vars

(***************************************************************************)
(* SpecResolve: geocode's contract.  As SpecGeo with the clock at rest;    *)
(* resp holds the answer the provider gave to the latest request.          *)
(***************************************************************************)
ResolveRespond(id) ==
  /\ calls[id].state = "inflight"
  /\ \E r \in ProviderResponses : Settle(id, r) /\ resp' = r
  /\ UNCHANGED <<fnVars, adapter, urlSet, keySet, pc, err, fetchVars, now, poolLog>>

NextResolve ==
  \/ \E a \in GeoAddresses : GeoCall(a)
  \/ \E id \in DOMAIN calls : ResolveRespond(id)

SpecResolve == InitGeo /\ [][NextResolve]_vars

(***************************************************************************)
(* routes/city.js: GET /v1/city/:city and its response cache.  SpecCity    *)
(* has clients send requests while the clock runs; cache holds the route's *)
(* Map, calls the requests in arrival order.                               *)
(***************************************************************************)
\* module.exports of config.js
config == [port |-> Num(8080), logLevel |-> Str(Chars("info"))]
\* const { cityTTL } = require("../config")
cityTTL == Get(config, "cityTTL")

\* a * b and a + b of two numbers-or-undefined: NaN unless both are numbers
Times(a, b) == IF a.t = "num" /\ b.t = "num" THEN Num(a.n * b.n) ELSE NaN
Plus(a, b) == IF a.t = "num" /\ b.t = "num" THEN Num(a.n + b.n) ELSE NaN
\* a > b: false when either side is NaN
Greater(a, b) == a.t = "num" /\ b.t = "num" /\ a.n > b.n

\* CITY_PROVIDER[String(city).toLowerCase()] || "nashvilleMNPD"
resolveProvider(city) ==
  CASE ToLowerCase(city) \in {Chars("portland"), Chars("pdx")} -> "pdx"
    [] ToLowerCase(city) \in {Chars("sf"), Chars("san-francisco"), Chars("sanfrancisco")} -> "sf"
    [] OTHER -> "nashvilleMNPD"

\* `city:${city}` with city lower-cased
CityKey(city) == Chars("city:") \o ToLowerCase(city)

\* req.params.city of the requests
CityParams == {Chars("sf"), Chars("SF"), Chars("pdx")}
\* requests sent in SpecCity
MaxRequests == 2

\* cached && cached.expiresAt > now
CityFresh(key) == MapHas(cache, key) /\ Greater(cache[key].expiresAt, Num(now))

\* A request arrives and the handler runs to its first await: a fresh entry
\* is returned with X-Cache "hit"; otherwise the provider's fetchCity is called
CityRequest(city) ==
  /\ pc = "city"
  /\ Len(calls) < MaxRequests
  /\ LET key == CityKey(city)
         base == [key |-> key, start |-> now, end |-> now, cached |-> MapHas(cache, key),
                  provider |-> "none", xcache |-> "none", data |-> Undefined,
                  state |-> "inflight"]
     IN calls' = Append(calls,
                   IF CityFresh(key)
                   THEN [base EXCEPT !.xcache = "hit", !.data = cache[key].data,
                                     !.state = "ok"]
                   ELSE [base EXCEPT !.provider = resolveProvider(city)])
  /\ UNCHANGED <<fnVars, adapter, urlSet, keySet, err, resp, fetchVars, cache, now, pc, poolLog>>

\* provider.fetchCity of request id resolves: the payload is stored with the
\* expiry counted from the request's own Date.now(), and returned
CityFetched(id) ==
  /\ pc = "city"
  /\ calls[id].state = "inflight"
  /\ LET c == calls[id]
         data == [source |-> c.provider, fetchedAt |-> now]
     IN /\ cache' = MapSet(cache, c.key,
                           [data |-> data,
                            expiresAt |-> Plus(Num(c.start), Times(cityTTL, Num(1000)))])
        /\ calls' = [calls EXCEPT ![id].state = "ok", ![id].data = data, ![id].end = now,
                                  ![id].xcache = IF c.cached THEN "stale-refresh" ELSE "miss"]
  /\ UNCHANGED <<fnVars, adapter, urlSet, keySet, err, resp, fetchVars, now, pc, poolLog>>

\* provider.fetchCity of request id rejects: the handler throws, nothing is stored
CityFailed(id) ==
  /\ pc = "city"
  /\ calls[id].state = "inflight"
  /\ calls' = [calls EXCEPT ![id].state = "err", ![id].end = now]
  /\ UNCHANGED <<fnVars, adapter, urlSet, keySet, err, resp, fetchVars, cache, now, pc, poolLog>>

\* Time passes.
CityTick ==
  /\ pc = "city"
  /\ now < MaxTime
  /\ now' = now + 1
  /\ UNCHANGED <<fnVars, adapter, urlSet, keySet, err, resp, fetchVars, cache, calls, pc, poolLog>>

InitCity ==
  /\ adapter = "none"
  /\ urlSet = TRUE
  /\ keySet = TRUE
  /\ pc = "city"
  /\ err = "none"
  /\ resp = NoResponse
  /\ rows = <<>>
  /\ uniqueKeys = <<>>
  /\ uniqueAddrMap = EmptyAddrMap
  /\ geocodeResults = EmptyMap
  /\ nextIdx = 0
  /\ runners = <<>>
  /\ calls = <<>>
  /\ cache = EmptyMap
  /\ now = 0
  /\ places = <<>>
  /\ poolLog = <<>>
  /\ input = Undefined
  /\ output = Undefined

NextCity ==
  \/ \E city \in CityParams : CityRequest(city)
  \/ \E id \in DOMAIN calls : CityFetched(id)
  \/ \E id \in DOMAIN calls : CityFailed(id)
  \/ CityTick

SpecCity == InitCity /\ [][NextCity]_vars

(***************************************************************************)
(* adapters/pdx.js: stripHtml and parseKmlDescription.  A position in a    *)
(* string counts from 1; a match is given by the position after its end,   *)
(* 0 when there is no match.                                               *)
(***************************************************************************)
\* the character at position i, "" past the end
At(str, i) == IF i \in DOMAIN str THEN str[i] ELSE ""

\* F(e), with e evaluated once before F is applied: a chain of string
\* operations a.f().g() is Then(Then(a, f), g)
Then(e, F(_)) == CHOOSE r \in {F(x) : x \in {e}} : TRUE

\* the character classes \s, [A-Za-z], \d and [A-Za-z0-9-]
SpaceChars == {" ", "\t", "\n"}
LetterChars == Range(UpperLetters) \cup Range(LowerLetters)
DigitChars == Range(Digits)
IdChars == LetterChars \cup DigitChars \cup {"-"}

\* the length of the longest run of characters of class cls starting at p
RECURSIVE RunLen(_, _, _)
RunLen(str, p, cls) ==
  IF p \in DOMAIN str /\ str[p] \in cls THEN 1 + RunLen(str, p + 1, cls) ELSE 0

\* str.slice(p - 1, p - 1 + Len(lit)).toLowerCase() === lit
LowerAt(str, p, lit) ==
  /\ p + Len(lit) - 1 <= Len(str)
  /\ ToLowerCase(SubSeq(str, p, p + Len(lit) - 1)) = lit

\* s.replace(/<[^>]*>/g, " ")
RECURSIVE StripTags(_)
StripTags(str) ==
  IF str = <<>> THEN <<>>
  ELSE IF Head(str) = "<" /\ Includes(str, <<">">>)
       THEN <<" ">> \o StripTags(SubSeq(str, IndexOf(str, <<">">>) + 1, Len(str)))
       ELSE <<Head(str)>> \o StripTags(Tail(str))

stripHtml(v) == Then(Then(StripTags(v), CollapseSpaces), Trim)

\* (?:Sun|Mon|Tue|Tues|Wed|Thu|Thur|Thurs|Fri|Sat)(?:day)? of TS_INLINE
TS_INLINE_DAYS ==
  LET abbr == {Chars("sun"), Chars("mon"), Chars("tue"), Chars("tues"), Chars("wed"),
               Chars("thu"), Chars("thur"), Chars("thurs"), Chars("fri"), Chars("sat")}
  IN abbr \cup {a \o Chars("day") : a \in abbr}
\* (?:Sunday|Monday|Tuesday|Wednesday|Thursday|Friday|Saturday) of TS_ANYWHERE
TS_ANYWHERE_DAYS ==
  {Chars("sunday"), Chars("monday"), Chars("tuesday"), Chars("wednesday"),
   Chars("thursday"), Chars("friday"), Chars("saturday")}

\* ,\s+[A-Za-z]+\s+\d{1,2},\s+\d{4}\s+\d{1,2}:\d{2}\s+ as a list of fields: a
\* character class with the least and the most characters it takes
STAMP_FIELDS ==
  <<[cls |-> {","}, lo |-> 1, hi |-> 1], [cls |-> SpaceChars, lo |-> 1, hi |-> 999],
    [cls |-> LetterChars, lo |-> 1, hi |-> 999], [cls |-> SpaceChars, lo |-> 1, hi |-> 999],
    [cls |-> DigitChars, lo |-> 1, hi |-> 2], [cls |-> {","}, lo |-> 1, hi |-> 1],
    [cls |-> SpaceChars, lo |-> 1, hi |-> 999], [cls |-> DigitChars, lo |-> 4, hi |-> 4],
    [cls |-> SpaceChars, lo |-> 1, hi |-> 999], [cls |-> DigitChars, lo |-> 1, hi |-> 2],
    [cls |-> {":"}, lo |-> 1, hi |-> 1], [cls |-> DigitChars, lo |-> 2, hi |-> 2],
    [cls |-> SpaceChars, lo |-> 1, hi |-> 999]>>

\* the fields from field k on matched at p: the position after the match, or
\* 0.  A field takes the longest run of its class up to hi (the quantifiers
\* are greedy, and no field can take a character of the one before it).
RECURSIVE MatchFields(_, _, _, _)
MatchFields(str, p, fields, k) ==
  IF k > Len(fields) THEN p
  ELSE IF RunLen(str, p, fields[k].cls) < fields[k].lo THEN 0
  ELSE CHOOSE e \in {MatchFields(str, q, fields, k + 1) :
                       q \in {p + (IF RunLen(str, p, fields[k].cls) > fields[k].hi
                                   THEN fields[k].hi
                                   ELSE RunLen(str, p, fields[k].cls))}} : TRUE

\* the fields, then (?:AM|PM)\b, matched at p (case-insensitive)
StampTail(str, p) ==
  CHOOSE e \in {IF /\ q > 0
                   /\ (LowerAt(str, q, Chars("am")) \/ LowerAt(str, q, Chars("pm")))
                   /\ ~IsWordChar(At(str, q + 2))
                THEN q + 2 ELSE 0 : q \in {MatchFields(str, p, STAMP_FIELDS, 1)}} : TRUE

\* the time stamp pattern with the given day names matched at p: \b, a day
\* name, then the rest
StampEnd(str, p, days) ==
  IF /\ ~IsWordChar(At(str, p - 1))
     /\ \E d \in days : LowerAt(str, p, d) /\ StampTail(str, p + Len(d)) > 0
  THEN StampTail(str, p + Len(CHOOSE d \in days :
                          LowerAt(str, p, d) /\ StampTail(str, p + Len(d)) > 0))
  ELSE 0

\* where the first match of the time stamp pattern starts, 0 when none
StampStart(str, days) ==
  IF \E p \in DOMAIN str : StampEnd(str, p, days) > 0
  THEN CHOOSE p \in DOMAIN str :
         StampEnd(str, p, days) > 0 /\ \A q \in 1..(p - 1) : StampEnd(str, q, days) = 0
  ELSE 0

\* addrPart.replace(TS_INLINE, "")
RemoveStamp(str) ==
  IF StampStart(str, TS_INLINE_DAYS) = 0 THEN str
  ELSE SubSeq(str, 1, StampStart(str, TS_INLINE_DAYS) - 1)
         \o SubSeq(str, StampEnd(str, StampStart(str, TS_INLINE_DAYS), TS_INLINE_DAYS),
                   Len(str))

\* /\[(?:Portland Police|PPB|Police)[^#]*#([A-Za-z0-9-]+)\]/i matched at p:
\* where the id starts, and the position after the match (0 when no match)
IdMatch(str, p) ==
  LET agencies == {Chars("portland police"), Chars("ppb"), Chars("police")}
      hash == IF \E k \in (p + 1)..Len(str) : str[k] = "#"
              THEN CHOOSE k \in (p + 1)..Len(str) :
                     str[k] = "#" /\ \A j \in (p + 1)..(k - 1) : str[j] # "#"
              ELSE 0
      n == RunLen(str, hash + 1, IdChars)
  IN IF /\ At(str, p) = "["
        /\ \E a \in agencies : LowerAt(str, p + 1, a) /\ hash > p + Len(a)
        /\ n > 0
        /\ At(str, hash + 1 + n) = "]"
     THEN [id |-> hash + 1, end |-> hash + n + 2]
     ELSE [id |-> 0, end |-> 0]

IdStart(str) ==
  IF \E p \in DOMAIN str : IdMatch(str, p).end > 0
  THEN CHOOSE p \in DOMAIN str :
         IdMatch(str, p).end > 0 /\ \A q \in 1..(p - 1) : IdMatch(str, q).end = 0
  ELSE 0

\* the incident id the replace callback stores, undefined without a match
IncidentId(str) ==
  IF IdStart(str) = 0 THEN Undefined
  ELSE Str(SubSeq(str, IdMatch(str, IdStart(str)).id, IdMatch(str, IdStart(str)).end - 2))

RemoveId(str) ==
  IF IdStart(str) = 0 THEN str
  ELSE SubSeq(str, 1, IdStart(str) - 1) \o SubSeq(str, IdMatch(str, IdStart(str)).end, Len(str))

\* .replace(/\s*,\s*/g, ", ")
RECURSIVE CommaSpacing(_)
CommaSpacing(str) ==
  IF str = <<>> THEN <<>>
  ELSE IF TrimStart(str) # <<>> /\ Head(TrimStart(str)) = ","
       THEN <<",", " ">> \o CommaSpacing(TrimStart(Tail(TrimStart(str))))
       ELSE <<Head(str)>> \o CommaSpacing(Tail(str))

\* /,\s*PORT(?:LAND)?\b\.?/i matched at p: the position after the match, or 0
PortEnd(str, p) ==
  LET q == p + 1 + RunLen(str, p + 1, SpaceChars)
      e == IF LowerAt(str, q, Chars("portland")) /\ ~IsWordChar(At(str, q + 8)) THEN q + 8
           ELSE IF LowerAt(str, q, Chars("port")) /\ ~IsWordChar(At(str, q + 4)) THEN q + 4
           ELSE 0
  IN IF At(str, p) # "," \/ e = 0 THEN 0
     ELSE IF At(str, e) = "." THEN e + 1 ELSE e

\* .replace(/,\s*PORT(?:LAND)?\b\.?/i, ""): the first match only
DropPort(str) ==
  IF \A p \in DOMAIN str : PortEnd(str, p) = 0 THEN str
  ELSE LET p == CHOOSE k \in DOMAIN str :
                  PortEnd(str, k) > 0 /\ \A j \in 1..(k - 1) : PortEnd(str, j) = 0
       IN SubSeq(str, 1, p - 1) \o SubSeq(str, PortEnd(str, p), Len(str))

\* .replace(/,\s*(?:,)+/g, ",")
RECURSIVE CommaRuns(_)
CommaRuns(str) ==
  IF str = <<>> THEN <<>>
  ELSE IF Head(str) = "," /\ At(TrimStart(Tail(str)), 1) = ","
       THEN <<",">> \o CommaRuns(SubSeq(TrimStart(Tail(str)),
                                         1 + RunLen(TrimStart(Tail(str)), 1, {","}),
                                         Len(TrimStart(Tail(str)))))
       ELSE <<Head(str)>> \o CommaRuns(Tail(str))

\* .replace(/^,|,$/g, "")
EdgeCommas(str) ==
  LET t == IF At(str, 1) = "," THEN Tail(str) ELSE str
  IN IF At(t, Len(t)) = "," THEN SubSeq(t, 1, Len(t) - 1) ELSE t

\* atIdx >= 0 ? desc.slice(atIdx + 4) : desc
AfterAt(desc) ==
  IF IndexOf(ToLowerCase(desc), Chars(" at ")) > 0
  THEN SubSeq(desc, IndexOf(ToLowerCase(desc), Chars(" at ")) + 4, Len(desc))
  ELSE desc

\* addrPart.split("\n")[0]
FirstLine(str) ==
  IF Includes(str, <<"\n">>) THEN SubSeq(str, 1, IndexOf(str, <<"\n">>) - 1) ELSE str

\* addrPart of parseKmlDescription before the incident id is taken out
KmlAddrPart(desc) ==
  Then(Then(Then(Then(AfterAt(desc), FirstLine), Trim), RemoveStamp), Trim)

\* the id taken out, and the "Normalize address punctuation" chain
KmlClean(addrPart) ==
  Then(Then(Then(Then(Then(Then(Then(RemoveId(addrPart), Trim), CollapseRuns),
                           CommaSpacing), DropPort), CommaRuns), EdgeCommas), Trim)

\* desc.match(TS_ANYWHERE)[0]
KmlStamp(desc) ==
  SubSeq(desc, StampStart(desc, TS_ANYWHERE_DAYS),
         StampEnd(desc, StampStart(desc, TS_ANYWHERE_DAYS), TS_ANYWHERE_DAYS) - 1)

\* parseKmlDescription after const desc = stripHtml(descRaw)
KmlParsed(desc) ==
  [cleanAddress |-> Then(KmlAddrPart(desc), KmlClean),
   incidentId |-> Then(KmlAddrPart(desc), IncidentId),
   updatedAt |-> IF StampStart(desc, TS_ANYWHERE_DAYS) = 0 THEN Undefined
                 ELSE Then(KmlStamp(desc), tryParse)]

\* parseKmlDescription(descRaw)
parseKmlDescription(descRaw) == Then(stripHtml(descRaw), KmlParsed)

(***************************************************************************)
(* SpecFn: the helper functions on their own.  A helper is called once, on *)
(* an argument drawn from the inputs below, and returns.                   *)
(***************************************************************************)
\* addresses handed to normalizeAddress: null, undefined and every string of
\* these characters up to MaxLen
AddressChars == {"A", "b", " ", "\t"}
AddressInputs == {Null, Undefined} \cup {Str(x) : x \in SeqUpTo(AddressChars, MaxLen)}

CallNormalizeAddress ==
  /\ pc = "call"
  /\ input.fn = "normalizeAddress"
  /\ output' = normalizeAddress(input.arg)
  /\ pc' = "returned"
  /\ UNCHANGED <<input, adapter, urlSet, keySet, err, resp, fetchVars, calls, cache, now,
                 poolLog>>

\* KML descriptions handed to parseKmlDescription, of the form
\* "<name> at <address>, <time stamp> [Portland Police #<id>]"
\* a time stamp as the feed writes it, with the date (as a day number) and
\* the minute of the day it names
Stamp(text, y, m, d, min) == [text |-> Chars(text), day |-> DaysFromCivil(y, m, d), min |-> min]
KmlStamps ==
  {Stamp("Sunday, August 17, 2025 4:20 PM", 2025, 8, 17, 980),
   Stamp("Monday, August 18, 2025 4:20 PM", 2025, 8, 18, 980),
   Stamp("Tuesday, August 19, 2025 4:20 PM", 2025, 8, 19, 980),
   Stamp("Wednesday, August 20, 2025 11:05 AM", 2025, 8, 20, 665),
   Stamp("Thursday, August 21, 2025 4:20 PM", 2025, 8, 21, 980),
   Stamp("Friday, August 22, 2025 4:20 PM", 2025, 8, 22, 980),
   Stamp("Saturday, August 23, 2025 4:20 PM", 2025, 8, 23, 980),
   Stamp("Monday, January 13, 2025 4:20 PM", 2025, 1, 13, 980),
   Stamp("Friday, December 5, 2025 11:05 PM", 2025, 12, 5, 1385)}
KmlInputs ==
  {[fn |-> "parseKmlDescription",
    arg |-> n \o Chars(" at ") \o a \o Chars(", ") \o t.text \o Chars(" [Portland Police #")
              \o i \o Chars("]"),
    address |-> a, id |-> i, stamped |-> TRUE, day |-> t.day, min |-> t.min] :
     n \in {Chars("Theft"), Chars("Crash")},
     a \in {Chars("123 Main St"), Chars("SE 5th Ave / Oak St")},
     t \in KmlStamps,
     i \in {Chars("PP1"), Chars("PP25-0002")}}
  \cup
  {[fn |-> "parseKmlDescription",
    arg |-> Chars("Theft at ") \o a \o Chars(" [Portland Police #PP1]"),
    address |-> a, id |-> Chars("PP1"), stamped |-> FALSE, day |-> 0, min |-> 0] :
     a \in {Chars("123 Main St"), Chars("SE 5th Ave / Oak St")}}

CallParseKmlDescription ==
  /\ pc = "call"
  /\ input.fn = "parseKmlDescription"
  /\ output' = parseKmlDescription(input.arg)
  /\ pc' = "returned"
  /\ UNCHANGED <<input, adapter, urlSet, keySet, err, resp, fetchVars, calls, cache, now,
                 poolLog>>

\* /\<kml[\s>]/i.test(text), /\<html[\s>]/i.test(text): "<" and the name,
\* in either case, then white space or ">", anywhere in the text
TagTest(text, name) ==
  \E p \in DOMAIN text :
     /\ text[p] = "<"
     /\ LowerAt(text, p + 1, name)
     /\ (At(text, p + 1 + Len(name)) \in SpaceChars \/ At(text, p + 1 + Len(name)) = ">")

\* JSON.parse(text) succeeds.  Of the documents below: an array that is
\* empty or holds one string without quotes or backslashes in it
JsonParses(text) ==
  LET t == Trim(text)
  IN /\ Len(t) >= 2 /\ t[1] = "[" /\ t[Len(t)] = "]"
     /\ \/ Len(t) = 2
        \/ /\ Len(t) >= 4 /\ t[2] = "\"" /\ t[Len(t) - 1] = "\""
           /\ \A k \in 3..(Len(t) - 2) : t[k] \notin {"\"", "\\"}

\* the parser fetchCity (pdx) hands the body to: "none" when rows stays []
PdxSniff(text) ==
  IF TagTest(text, Chars("kml")) THEN "kml"
  ELSE IF JsonParses(text) THEN "json"
  ELSE IF TagTest(text, Chars("html")) THEN "html"
  ELSE "none"

\* response bodies: a KML document, JSON arrays, an HTML page, plain text, and
\* JSON, HTML and text that mention a kml or html tag
DocumentInputs ==
  {Chars("<kml></kml>"), Chars("<KML xmlns=''></KML>"), Chars("[]"), Chars("[\"a\"]"),
   Chars("[\"<kml>\"]"), Chars("<html></html>"), Chars("<html><p><kml ></p></html>"),
   Chars("see <html> tags"), Chars("n/a")}

\* fetchCity (pdx) picks a parser for the body it has read
CallSniff ==
  /\ pc = "call"
  /\ input.fn = "sniff"
  /\ output' = [parser |-> PdxSniff(input.arg)]
  /\ pc' = "returned"
  /\ UNCHANGED <<input, adapter, urlSet, keySet, err, resp, fetchVars, calls, cache, now,
                 poolLog>>

\* display addresses as buildDisplayAddress makes them of a street (or none)
\* and a city name (or none), and strings that are not display addresses
ForceInputs ==
  {Str(buildDisplayAddress(st, c)) :
     st \in {Str(<<>>), Str(S_MainSt), Str(Chars("5th ave \\ oak st"))},
     c \in {Undefined, Str(Chars("Franklin")), Str(Chars("EAST"))}}
  \cup {Str(<<>>), Str(S_MainSt), Str(Chars("Main St, Franklin, tn")), Null}

\* forceNashville(address) is called
CallForceNashville ==
  /\ pc = "call"
  /\ input.fn = "forceNashville"
  /\ output' = forceNashville(input.arg)
  /\ pc' = "returned"
  /\ UNCHANGED <<input, adapter, urlSet, keySet, err, resp, fetchVars, calls, cache, now,
                 poolLog>>

\* timestamps as the feeds can carry them: epochs inside and outside the
\* range of Date, NaN, date strings and other text, null and undefined
TimestampInputs ==
  {Num(0), Num(20318), Num(MaxDateDays), Num(MaxDateDays + 1), Num(0 - MaxDateDays - 1),
   NaN, Str(S_IsoStamp), Str(S_KmlStamp), Str(S_NoStamp), Str(<<>>), Null, Undefined}
TimestampInput == [fn : {"toISO", "safeISO", "sfToISO"}, arg : TimestampInputs]

\* toISO (nashville.js), safeISO (pdx.js) or toISO (sf.js) is called
CallToISO ==
  /\ pc = "call"
  /\ input.fn \in {"toISO", "safeISO", "sfToISO"}
  /\ output' = CASE input.fn = "toISO" -> toISO(input.arg)
                  [] input.fn = "safeISO" -> safeISO(input.arg)
                  [] input.fn = "sfToISO" -> sfToISO(input.arg)
  /\ pc' = "returned"
  /\ UNCHANGED <<input, adapter, urlSet, keySet, err, resp, fetchVars, calls, cache, now,
                 poolLog>>

InitFn ==
  /\ adapter = "none"
  /\ urlSet = TRUE
  /\ keySet = TRUE
  /\ pc = "call"
  /\ err = "none"
  /\ resp = NoResponse
  /\ rows = <<>>
  /\ uniqueKeys = <<>>
  /\ uniqueAddrMap = EmptyAddrMap
  /\ geocodeResults = EmptyMap
  /\ nextIdx = 0
  /\ runners = <<>>
  /\ calls = <<>>
  /\ cache = EmptyMap
  /\ now = 0
  /\ places = <<>>
  /\ poolLog = <<>>
  /\ input \in [fn : {"normalizeAddress"}, arg : AddressInputs] \cup KmlInputs
                \cup TimestampInput \cup [fn : {"sniff"}, arg : DocumentInputs]
                \cup [fn : {"forceNashville"}, arg : ForceInputs]
  /\ output = Undefined

NextFn ==
  \/ CallNormalizeAddress
  \/ CallParseKmlDescription
  \/ CallToISO
  \/ CallSniff
  \/ CallForceNashville

SpecFn == InitFn /\ [][NextFn]_vars

(***************************************************************************)
(* Properties                                                              *)
(***************************************************************************)
LatInRange(v) == IsFinite(v) /\ v.n >= -900000 /\ v.n <= 900000
LonInRange(v) == IsFinite(v) /\ v.n >= -1800000 /\ v.n <= 1800000

\* the geocode calls made for unique query k, by attempt
KeyCalls(k, a) == {i \in DOMAIN calls : calls[i].key = k /\ calls[i].attempt = a}
AllKeyCalls(k) == {i \in DOMAIN calls : calls[i].key = k}
\* some worker is still waiting on call i
Awaiting(i) == \E r \in DOMAIN runners : runners[r].state = "await" /\ runners[r].call = i

\* a record of nashville or pdx needs geocoding, and the query it needs
NeedsGeocode(r) == IF adapter = "nashville" THEN ~IsFalsy(r.displayAddress)
                   ELSE PdxNeedsGeo(r)
QueryOf(r) == normalizeAddress(IF adapter = "nashville" THEN r.displayAddress
                               ELSE r.address)
QueriesNeeded ==
  {QueryOf(rows[i]) : i \in {j \in DOMAIN rows : NeedsGeocode(rows[j])}} \ {<<>>}

\* record i is in the returned places
Emitted(i) == \E j \in DOMAIN places : places[j].src = i
EmittedAt(i, lat, lon) ==
  \E j \in DOMAIN places : places[j].src = i /\ places[j].lat = lat /\ places[j].lon = lon

Geocoding == adapter \in {"nashville", "pdx"} /\ pc \in {"pool", "done"}

\* the distance test of the sanity check, on a geocode result
MilesFromCenter(g) == haversineMiles(g, NASHVILLE_CENTER)
BeyondRadius(g) == MilesFromCenter(g) > MAX_MILES * 1000

\* C1: for every adapter and every upstream response, each place fetchCity
\* returns has a finite lat in [-90, 90] and a finite lon in [-180, 180]; a
\* row whose native latitude is "91" is never among the places.
C1_PlacesInRange ==
  \A j \in DOMAIN places : LatInRange(places[j].lat) /\ LonInRange(places[j].lon)

\* C2 as stated: within one fetchCity, the number of geocode() calls is at
\* most the number of distinct normalizeAddress values among the records
\* needing geocoding.
C2_CallsAtMostDistinct ==
  /\ adapter = "sf" => calls = <<>>
  /\ Geocoding => Len(calls) <= Cardinality(QueriesNeeded)

\* C2 amended: within one fetchCity, every geocode() call is made for a distinct
\* normalized query of the records needing geocoding; each such query gets at
\* most one first-attempt call (exactly one once fetchCity has returned),
\* whose query is that normalized value, however many records share it; the
\* only other calls are nashville's sanity retries, at most one per query.
C2_OneLookupPerQuery ==
  /\ adapter = "sf" => calls = <<>>
  /\ Geocoding =>
       LET needed == QueriesNeeded
       IN /\ \A i \in DOMAIN calls :
               calls[i].key \in needed /\ calls[i].attempt \in {"first", "retry"}
          /\ \A k \in needed :
               /\ Cardinality(KeyCalls(k, "first")) <= 1
               /\ Cardinality(KeyCalls(k, "retry"))
                    <= (IF adapter = "nashville" THEN 1 ELSE 0)
               /\ \A i \in KeyCalls(k, "first") : calls[i].q = k
               /\ pc = "done" => Cardinality(KeyCalls(k, "first")) = 1

\* two pdx rows whose addresses differ in case and whitespace only, both
\* needing geocoding, and the one geocode() call of the finished fetch
C2_Witness ==
  /\ adapter = "pdx" /\ pc = "done" /\ Len(rows) = 2
  /\ NeedsGeocode(rows[1]) /\ NeedsGeocode(rows[2])
  /\ rows[1].address # rows[2].address
  /\ QueryOf(rows[1]) = QueryOf(rows[2])
  /\ Len(calls) = 1

\* C3: during mapWithConcurrency(items, 5, worker) at most 5 lookups are in
\* flight at any moment; with n <= 5 items all n are started before any has
\* settled; with n > 5 the first 5 start at once and item i > 5 starts only
\* after at least i - 5 lookups have settled.
C3_PoolBound ==
  /\ Cardinality(InFlight) <= POOL_LIMIT
  /\ (pc # "mapstart" /\ Len(uniqueKeys) <= POOL_LIMIT)
       => (Len(poolLog) = Len(uniqueKeys) /\ \A i \in DOMAIN poolLog : poolLog[i] = 0)
  /\ \A i \in DOMAIN poolLog :
       IF i <= POOL_LIMIT THEN poolLog[i] = 0
       ELSE poolLog[i] >= 1 /\ poolLog[i] >= i - POOL_LIMIT

\* more items than the pool is wide, the sixth lookup started, five in flight
C3_Witness ==
  /\ pc = "map" /\ Len(uniqueKeys) > POOL_LIMIT
  /\ Len(poolLog) > POOL_LIMIT
  /\ Cardinality(InFlight) = POOL_LIMIT

\* a record carries coordinates of its own (nashville's records never do,
\* pdx's rows do when the feed gave them)
RecordHasCoords(r) == adapter = "pdx" /\ HasCoords(r)
\* the record has no query, or its query is not in the result map
QueryAbsent(r) == ~NeedsGeocode(r) \/ ~MapHas(geocodeResults, QueryOf(r))

\* C4: a failing geocode() never makes fetchCity throw; once fetchCity has
\* returned, every unique query was looked up, a query with a failed lookup
\* is absent from the result map, a query whose lookups all succeeded is in
\* it, and the records dropped from places are exactly those without
\* coordinates of their own whose query is absent.
C4_FailureIsolated ==
  /\ pc = "failed" => calls = <<>>
  /\ (Geocoding /\ pc = "done") =>
       /\ \A k \in QueriesNeeded :
            /\ KeyCalls(k, "first") # {}
            /\ (\E i \in AllKeyCalls(k) : calls[i].state = "err")
                 => ~MapHas(geocodeResults, k)
            /\ (\A i \in AllKeyCalls(k) : calls[i].state = "ok")
                 => MapHas(geocodeResults, k)
       /\ \A i \in DOMAIN rows :
            ~Emitted(i) <=> (~RecordHasCoords(rows[i]) /\ QueryAbsent(rows[i]))

\* a finished fetch in which one query failed and another was recorded, one
\* record dropped and one emitted
C4_Witness ==
  /\ Geocoding /\ pc = "done"
  /\ \E k1, k2 \in QueriesNeeded :
       /\ k1 # k2
       /\ \E i \in AllKeyCalls(k1) : calls[i].state = "err"
       /\ MapHas(geocodeResults, k2)
  /\ \E i, j \in DOMAIN rows : ~Emitted(i) /\ Emitted(j)

\* C5: within one fetchCity, no two pool workers have a geocode lookup in
\* flight for the same normalized query at the same time, first attempts and
\* nashville's retries alike.
C5_NoSharedQueryInFlight ==
  \A i, j \in DOMAIN calls :
     (/\ i # j
      /\ calls[i].state = "inflight" /\ calls[j].state = "inflight"
      /\ calls[i].runner # calls[j].runner)
       => calls[i].q # calls[j].q

\* C6 as stated: after a geocode succeeded at time t (the time it settled),
\* every later call for the same normalized query made strictly before
\* t + TTL is served from the cache without an outbound request, and one made
\* at or after t + TTL issues a request and stores an entry expiring at its
\* own time + TTL.
C6_ExpiryFromSuccess ==
  \A i, j \in DOMAIN calls :
     (/\ calls[i].state = "ok" /\ calls[i].outbound
      /\ calls[j].q = calls[i].q
      /\ calls[j].start > calls[i].end)
       => /\ calls[j].start < calls[i].end + TTL
               => (calls[j].hit /\ ~calls[j].outbound)
          /\ calls[j].start >= calls[i].end + TTL
               => (calls[j].outbound /\ ~calls[j].hit)

\* the calls made, and the requests answered with a result, in one step
NewCalls == {j \in DOMAIN calls' : j \notin DOMAIN calls}
Succeeding == {i \in DOMAIN calls : calls[i].state = "inflight" /\ calls'[i].state = "ok"}

C6_Step ==
  /\ \A j \in NewCalls :
       LET c == calls'[j]
       IN keySet =>
            IF MapHas(cache, c.q) /\ c.start < cache[c.q].expiresAt
            THEN c.hit /\ ~c.outbound /\ c.state = "ok" /\ c.data = cache[c.q].data
            ELSE ~c.hit /\ c.outbound /\ c.state = "inflight"
  /\ \A j \in NewCalls : calls'[j].start = now
  /\ \A i \in Succeeding :
       cache'[calls[i].q] = [data |-> calls'[i].data, expiresAt |-> calls[i].start + TTL]
  /\ cache' # cache => Succeeding # {}

\* C6 amended: a geocode call made at time s is served from the cache, with no
\* outbound request, exactly when an entry is stored for its normalized query
\* and s is strictly before that entry's expiry; otherwise it issues an
\* outbound request and, only if that request succeeds, stores a new entry.
\* An entry expires at the time its storing call was made (not the time it
\* succeeded) + TTL, and entries change at no other moment: expiry is looked
\* at only when a call is made.
C6_CacheTiming == [][C6_Step]_vars

\* a call made at the expiry time of the entry an earlier call stored: it
\* issued a request of its own and stored an entry expiring at its time + TTL
C6_Witness ==
  \E i, j \in DOMAIN calls :
     /\ i < j /\ calls[i].q = calls[j].q
     /\ calls[i].state = "ok" /\ calls[i].outbound
     /\ calls[j].start = calls[i].start + TTL
     /\ calls[j].state = "ok" /\ calls[j].outbound
     /\ MapHas(cache, calls[j].q)
     /\ cache[calls[j].q].expiresAt = calls[j].start + TTL

\* C7: in nashville, a query whose first result is more than 40 miles from
\* the center gets exactly one retry, with forceNashville(original); the
\* retry's result replaces the first only when it is finite and within 40
\* miles; a first result within 40 miles gets no retry; no query has more
\* than two geocode() calls.
C7_SanityRetry ==
  (adapter = "nashville" /\ pc \in {"pool", "done"}) =>
    \A k \in DOMAIN uniqueAddrMap :
       /\ Cardinality(KeyCalls(k, "first")) <= 1
       /\ Cardinality(KeyCalls(k, "retry")) <= 1
       /\ Cardinality(AllKeyCalls(k)) <= 2
       /\ KeyCalls(k, "retry") # {} => KeyCalls(k, "first") # {}
       /\ \A f \in KeyCalls(k, "first") :
            LET far == calls[f].state = "ok" /\ BeyondRadius(calls[f].data)
                accepted == {r \in KeyCalls(k, "retry") :
                               calls[r].state = "ok" /\ ~BeyondRadius(calls[r].data)}
            IN /\ KeyCalls(k, "retry") # {} => far
               /\ (far /\ ~Awaiting(f)) => KeyCalls(k, "retry") # {}
               /\ \A r \in KeyCalls(k, "retry") :
                    calls[r].address = forceNashville(Str(uniqueAddrMap[k]))
               /\ MapHas(geocodeResults, k) =>
                    /\ \A r \in accepted : geocodeResults[k] = calls[r].data
                    /\ accepted = {} => geocodeResults[k] = calls[f].data

\* a query whose first result was 120 or more miles out and whose retry came
\* back within the radius and replaced it
C7_Witness ==
  /\ adapter = "nashville"
  /\ \E k \in DOMAIN uniqueAddrMap :
       \E f \in KeyCalls(k, "first"), r \in KeyCalls(k, "retry") :
          /\ calls[f].state = "ok" /\ BeyondRadius(calls[f].data)
          /\ calls[r].state = "ok" /\ ~BeyondRadius(calls[r].data)
          /\ MapHas(geocodeResults, k)
          /\ geocodeResults[k] = calls[r].data
          /\ geocodeResults[k] # calls[f].data

\* C8: in nashville, when the first result of a query is beyond the radius
\* and the retry is not accepted (its result is beyond the radius too, or the
\* retry lookup failed), the first result is kept in the result map and the
\* query's records are emitted with its coordinates.
C8_OriginalKept ==
  (adapter = "nashville" /\ pc \in {"pool", "done"}) =>
    \A k \in DOMAIN uniqueAddrMap :
       \A f \in KeyCalls(k, "first"), r \in KeyCalls(k, "retry") :
          (/\ calls[f].state = "ok" /\ BeyondRadius(calls[f].data)
           /\ calls[r].state # "inflight" /\ ~Awaiting(r)
           /\ ~(calls[r].state = "ok" /\ ~BeyondRadius(calls[r].data)))
            => /\ MapHas(geocodeResults, k)
               /\ geocodeResults[k] = calls[f].data
               /\ pc = "done" =>
                    \A i \in DOMAIN rows :
                       QueryOf(rows[i]) = k
                         => EmittedAt(i, calls[f].data.lat, calls[f].data.lon)

\* the native coordinates of source row i: the GeoJSON point of a nashville
\* feature, the lat/lon of a pdx row, what sf's extractCoords finds
NativeOf(i) ==
  CASE adapter = "nashville" ->
         LET f == resp.body.rows[i]
         IN IF f # Null /\ Len(f.geometry) >= 2
            THEN [lat |-> ToNumber(f.geometry[2]), lon |-> ToNumber(f.geometry[1])]
            ELSE NoCoords
    [] adapter = "pdx" -> [lat |-> rows[i].lat, lon |-> rows[i].lon]
    [] OTHER -> extractCoords(rows[i])
HasNative(i) == IsFinite(NativeOf(i).lat) /\ IsFinite(NativeOf(i).lon)

\* C9: in every adapter, only rows without finite native coordinates put
\* their address in the geocode query set, and a row with finite native
\* coordinates is emitted with exactly those coordinates.
C9_NativeBypass ==
  pc \in {"pool", "done"} =>
    /\ \A k \in Range(uniqueKeys) :
         \E i \in DOMAIN rows : ~HasNative(i) /\ QueryOf(rows[i]) = k
    /\ pc = "done" =>
         \A i \in DOMAIN rows :
            HasNative(i) => EmittedAt(i, NativeOf(i).lat, NativeOf(i).lon)

\* C10: for every adapter, an upstream response whose status is not 2xx, or
\* a transport failure, makes fetchCity fail: it goes on to no geocoding and
\* returns no places list.
C10_Non2xxFails ==
  pc \in {"pool", "done"} =>
    (resp.ok /\ resp.statusCode >= 200 /\ resp.statusCode <= 299)

\* C11: for every adapter, once the upstream feed has answered with a 2xx
\* status fetchCity does not throw, whatever the body: non-JSON text, an
\* unexpected envelope, a list holding null, rows with missing fields.
C11_TwoXXAlwaysReturns ==
  (resp.ok /\ resp.statusCode >= 200 /\ resp.statusCode <= 299) => pc # "failed"

\* C12: each pdx format parser is total.  parseKML and parseHTMLTable map
\* whatever rows the document lists; parseJSONVariant must return a list for
\* every JSON value it is handed, and the empty list for input without rows.
C12_ParsersTotal ==
  (adapter = "pdx" /\ pc \in {"pool", "done"}) =>
     /\ resp.body.kind = "json" => ~parseJSONVariant(resp.body.rows).threw
     /\ resp.body.rows = <<>> => rows = <<>>

\* what geocode is to return for the answer r, by the contract: nothing for a
\* request that failed, an error status or a top hit without finite lat/lng
ContractFails(r) ==
  ~r.ok \/ r.statusCode >= 400 \/ ~IsFinite(r.hit.lat) \/ ~IsFinite(r.hit.lng)
Settling == {i \in DOMAIN calls : calls[i].state = "inflight" /\ calls'[i].state # "inflight"}

C13_Step ==
  /\ \A j \in NewCalls :
       /\ ~keySet => (calls'[j].state = "err" /\ ~calls'[j].outbound)
       /\ calls'[j].hit => (calls'[j].state = "ok" /\ calls'[j].data = cache[calls'[j].q].data)
  /\ \A i \in Settling :
       IF ContractFails(resp')
       THEN calls'[i].state = "err" /\ calls'[i].data = NoData
       ELSE /\ calls'[i].state = "ok"
            /\ calls'[i].data = [lat |-> resp'.hit.lat, lon |-> resp'.hit.lng,
                                 formatted |-> resp'.hit.formatted]
  /\ \A i \in DOMAIN calls' :
       calls'[i].state = "ok" => (IsFinite(calls'[i].data.lat) /\ IsFinite(calls'[i].data.lon))

\* C13: geocode(address) fails, returning nothing, when no API key is
\* configured, when the provider answers with an error status, and when there
\* is no top hit with finite latitude and longitude; in every other case it
\* returns {lat, lon, formatted} of the top hit (of the request it made, or of
\* the one whose result it has cached), lat and lon finite.
C13_GeocodeContract == [][C13_Step]_vars

\* one request answered with an error, another with a hit that was returned
C13_Witness ==
  /\ pc = "geo" /\ resp \in ProviderResponses /\ ~ContractFails(resp)
  /\ \E i, j \in DOMAIN calls :
       /\ calls[i].outbound /\ calls[i].state = "err"
       /\ calls[j].outbound /\ calls[j].state = "ok"
       /\ calls[j].data.lat = resp.hit.lat /\ calls[j].data.formatted = resp.hit.formatted

\* C14: without a geocoding API key, a fetchCity that has queries to geocode
\* (nashville; pdx with a row lacking coordinates) ends in an error and returns
\* no places list.
C14_NoKeyIsFatal ==
  (~keySet /\ adapter \in {"nashville", "pdx"} /\ uniqueKeys # <<>>) => pc # "done"

\* C15: every emitted place carries an address that is a non-empty string
C15_AddressNonEmpty ==
  pc = "done" =>
    \A i \in DOMAIN places : places[i].address.t = "str" /\ places[i].address.s # <<>>

\* C16: the address of an emitted place is the one built from the feed row it
\* comes from (the row's address after the city/state policy), never the
\* formatted label of a geocode result
C16_FormattedNeverOutput ==
  (pc = "done" /\ adapter \in {"nashville", "pdx"}) =>
    \A i \in DOMAIN places :
       places[i].address = IF adapter = "nashville" THEN rows[places[i].src].displayAddress
                           ELSE rows[places[i].src].address

\* an ISO-8601 datetime string as toISOString writes it
IsIsoDateTime(v) ==
  /\ v.t = "str"
  /\ Len(v.s) \in {24, 27}
  /\ v.s[Len(v.s)] = "Z"
  /\ v.s[Len(v.s) - 13] = "T"
  /\ \A k \in {1, 2, 4, 5, 7, 8} : IsDigit(v.s[Len(v.s) - 13 + k])

\* C17: every emitted place has an id and a name that are non-empty strings,
\* finite lat and lon, and a callTimeReceived that is an ISO-8601 datetime
\* string (the extras of a place are an object literal in every adapter)
C17_PlaceCore ==
  pc = "done" =>
    \A i \in DOMAIN places :
       /\ places[i].id.t = "str" /\ places[i].id.s # <<>>
       /\ places[i].name.t = "str" /\ places[i].name.s # <<>>
       /\ IsFinite(places[i].lat) /\ IsFinite(places[i].lon)
       /\ IsIsoDateTime(places[i].callTimeReceived)

\* C18: normalizeAddress is idempotent, and its result has no leading or
\* trailing whitespace, no two whitespace characters in a row and no
\* upper-case letter
C18_NormalizeIdempotent ==
  (pc = "returned" /\ input.fn = "normalizeAddress") =>
    /\ normalizeAddress(Str(output)) = output
    /\ output = <<>> \/ (~IsSpace(output[1]) /\ ~IsSpace(output[Len(output)]))
    /\ \A i \in 1..(Len(output) - 1) : ~(IsSpace(output[i]) /\ IsSpace(output[i + 1]))
    /\ \A i \in DOMAIN output : ~IsUpper(output[i])

\* " A\t " was normalized to "a": a string with whitespace at both ends and
\* a capital was handed in
C18_Witness ==
  /\ pc = "returned"
  /\ input = [fn |-> "normalizeAddress", arg |-> Str(<<" ", "A", "\t", " ">>)]
  /\ output = <<"a">>

\* C19: for a description "<name> at <address>, <time stamp> [Portland Police
\* #<id>]" parseKmlDescription returns cleanAddress equal to <address> and
\* incidentId equal to <id>
C19_KmlDescription ==
  (pc = "returned" /\ input.fn = "parseKmlDescription") =>
    /\ output.cleanAddress = input.address
    /\ output.incidentId = Str(input.id)

\* C20: an entry of the geocode cache that has not expired is left as it is
\* by every step: its result and its expiry stay the same
C20_Step ==
  \A q \in DOMAIN cache :
     cache[q].expiresAt > now => (q \in DOMAIN cache' /\ cache'[q] = cache[q])

C20_CacheImmutable == [][C20_Step]_vars

C21_Step ==
  /\ DOMAIN cache \subseteq DOMAIN cache'
  /\ \A q \in DOMAIN cache' :
       (q \notin DOMAIN cache \/ cache'[q] # cache[q])
         => \E i \in Settling : /\ calls'[i].state = "ok" /\ calls[i].q = q
                                /\ cache'[q].data = calls'[i].data
  /\ ( \/ \E i \in Settling : calls'[i].state = "err"
       \/ \E j \in NewCalls : calls'[j].state = "err" ) => cache' = cache

\* C21: a geocode() call that fails (no key, a request that fails, a status
\* >= 400, no finite top hit) leaves the cache as it was; an entry is created
\* or changed only by a call that succeeded with a request, for its own query,
\* and no entry is ever removed: an expired one stays until then.
C21_CacheFrame == [][C21_Step]_vars

\* a request for a query whose entry had expired has failed, the entry is there
C21_Witness ==
  /\ pc = "geo"
  /\ \E i \in DOMAIN calls :
       /\ calls[i].outbound /\ calls[i].state = "err"
       /\ calls[i].q \in DOMAIN cache
       /\ cache[calls[i].q].expiresAt <= calls[i].start

\* C22: mapWithConcurrency calls the worker once for each index of items and
\* for no other, whatever the order in which the workers settle; a result that
\* is stored is that of the item at its index; and when the call has resolved
\* every index has been handed to the worker, every invocation has settled
\* and every result is in its place.
C22_EachItemOnce ==
  /\ \A i, j \in DOMAIN calls :
        (pc \in {"map", "mapdone"} /\ i # j) => calls[i].idx # calls[j].idx
  /\ \A i \in DOMAIN calls :
        pc \in {"map", "mapdone"} => calls[i].idx \in DOMAIN uniqueKeys
  /\ pc \in {"map", "mapdone"} =>
        /\ DOMAIN output = DOMAIN uniqueKeys
        /\ \A k \in DOMAIN output :
              output[k] # Undefined =>
                /\ output[k] = WorkerValue(Num(uniqueKeys[k]))
                /\ \E i \in DOMAIN calls : calls[i].idx = k /\ calls[i].state = "ok"
  /\ pc = "mapdone" =>
        /\ {calls[i].idx : i \in DOMAIN calls} = DOMAIN uniqueKeys
        /\ \A i \in DOMAIN calls : calls[i].state = "ok"
        /\ \A k \in DOMAIN uniqueKeys : output[k] = WorkerValue(Num(uniqueKeys[k]))

\* the call has resolved for more items than the pool is wide
C22_Witness ==
  /\ pc = "mapdone" /\ Len(uniqueKeys) > POOL_LIMIT
  /\ Len(calls) = Len(uniqueKeys)
  /\ \A k \in DOMAIN uniqueKeys : output[k] = WorkerValue(Num(uniqueKeys[k]))

\* mapWithConcurrency has resolved with every item handed out and no runner left
Drained ==
  pc = "mapdone" /\ AllExited /\ nextIdx = Len(uniqueKeys)

\* C23: when every geocode lookup settles in the end, the worker pool the
\* adapters start drains: every queued query is handed to a worker, every
\* runner returns and the awaited call resolves, so fetchCity goes on to
\* return; for 0 queries, for fewer than 5 and for more than 5.
C23_PoolDrains == (pc = "mapstart") ~> Drained

\* drained with more queries than runners, a runner having taken a second one
C23_Witness ==
  /\ Drained /\ Len(uniqueKeys) > POOL_LIMIT
  /\ \E r \in DOMAIN runners : runners[r].idx > POOL_LIMIT

\* the address a record is geocoded by
AddressOf(r) == IF adapter = "nashville" THEN r.displayAddress ELSE r.address

\* the key a record's address was deduplicated under: the key of uniqueAddrMap
\* whose normalized form the address has
DedupeKeys(r) == {k \in Range(uniqueKeys) : k = normalizeAddress(AddressOf(r))}

\* C24: in nashville and pdx, once fetchCity has returned, a record that
\* needed geocoding was deduplicated under one key, the one its address
\* normalizes to; it is in places exactly when the result map has an entry
\* for that key, with the coordinates of that entry; so two records with the
\* same normalized query get the same coordinates.
C24_MergeKey ==
  (Geocoding /\ pc = "done") =>
    /\ \A i \in DOMAIN rows :
         (NeedsGeocode(rows[i]) /\ ~RecordHasCoords(rows[i])) =>
           /\ Cardinality(DedupeKeys(rows[i])) = 1
           /\ \A k \in DedupeKeys(rows[i]) :
                /\ k \in DOMAIN uniqueAddrMap
                /\ Emitted(i) <=> MapHas(geocodeResults, k)
                /\ MapHas(geocodeResults, k) =>
                     EmittedAt(i, geocodeResults[k].lat, geocodeResults[k].lon)
    /\ \A i, j \in DOMAIN rows :
         ( /\ NeedsGeocode(rows[i]) /\ ~RecordHasCoords(rows[i])
           /\ NeedsGeocode(rows[j]) /\ ~RecordHasCoords(rows[j])
           /\ QueryOf(rows[i]) = QueryOf(rows[j])
           /\ Emitted(i) ) =>
             \E a, b \in DOMAIN places :
                /\ places[a].src = i /\ places[b].src = j
                /\ places[a].lat = places[b].lat /\ places[a].lon = places[b].lon

\* two records whose addresses differ as strings share a query and a result
C24_Witness ==
  /\ Geocoding /\ pc = "done"
  /\ \E i, j \in DOMAIN rows :
       /\ i # j
       /\ NeedsGeocode(rows[i]) /\ NeedsGeocode(rows[j])
       /\ AddressOf(rows[i]) # AddressOf(rows[j])
       /\ QueryOf(rows[i]) = QueryOf(rows[j])
       /\ Emitted(i) /\ Emitted(j)

\* place p carries what the places loop of the adapter takes from row r
DerivedFrom(p, r) ==
  CASE adapter = "nashville" -> p.address = r.displayAddress /\ p.id = Str(r.id)
    [] adapter = "pdx" -> p.id = r.id /\ p.callTimeReceived = r.updatedAt
    [] adapter = "sf" -> <<p>> = SfPlace(p.src, r, extractCoords(r))

\* C25: for every adapter, when fetchCity has returned, each place comes from
\* one row of the parsed feed, no row gives two places, there are no more
\* places than rows, and the places stand in the order of their rows, whatever
\* the order in which the geocode lookups completed.
C25_PlacesFollowRows ==
  pc = "done" =>
    /\ Len(places) <= Len(rows)
    /\ \A j \in DOMAIN places :
         /\ places[j].src \in DOMAIN rows
         /\ DerivedFrom(places[j], rows[places[j].src])
    /\ \A a, b \in DOMAIN places : a < b => places[a].src < places[b].src

\* two places of two rows, the lookup made first having completed last
C25_Witness ==
  /\ pc = "done" /\ Len(places) = 2
  /\ places[1].src = 1 /\ places[2].src = 2
  /\ \E i, j \in DOMAIN calls : i < j /\ calls[i].end > calls[j].end

\* a provider fetch for the key has succeeded and been stored at this very time
StoredNow(key) ==
  \E i \in DOMAIN calls :
     /\ calls[i].key = key /\ calls[i].state = "ok"
     /\ calls[i].xcache \in {"miss", "stale-refresh"} /\ calls[i].end = now

C26_Step ==
  \A j \in NewCalls :
     (pc = "city" /\ StoredNow(calls'[j].key)) =>
        /\ calls'[j].xcache = "hit" /\ calls'[j].provider = "none"
        /\ calls'[j].data = cache[calls'[j].key].data

\* C26: a request for a city for which a provider fetch has succeeded and
\* been stored, arriving before the entry's expiry -- here at the very time
\* the entry was stored, which is before the expiry for every positive
\* lifetime -- is answered with the stored payload and X-Cache "hit", without
\* the provider being invoked.
C26_CityCacheHit == [][C26_Step]_vars

\* C27: toISO of nashville and of sf and safeISO of pdx return, for every
\* value, an ISO-8601 instant or undefined, and never throw: a timestamp that
\* cannot be parsed or is out of range gives undefined.
C27_TimestampTotal ==
  (pc = "returned" /\ input.fn \in {"toISO", "safeISO", "sfToISO"}) =>
     /\ output # Thrown
     /\ output = Undefined \/ IsIsoDateTime(output)
     /\ ~DateOf(input.arg).valid => output = Undefined

\* the name of the document's root tag, in lower case: the tag the text
\* begins with; "" when the text does not begin with a tag
RootTag(text) ==
  IF At(TrimStart(text), 1) # "<" THEN <<>>
  ELSE ToLowerCase(SubSeq(TrimStart(text), 2, 1 + RunLen(TrimStart(text), 2, LetterChars)))

\* C28: pdx fetchCity picks the parser from the body: the KML parser exactly
\* when the root tag is kml; else the JSON parser when the body parses as
\* JSON; else the HTML-table parser when the root tag is html; else no rows.
\* A body that is valid JSON never goes to the KML parser.
C28_ParserChoice ==
  (pc = "returned" /\ input.fn = "sniff") =>
     /\ output.parser = "kml" <=> RootTag(input.arg) = Chars("kml")
     /\ JsonParses(input.arg) => output.parser # "kml"
     /\ output.parser = "json" <=>
          (RootTag(input.arg) # Chars("kml") /\ JsonParses(input.arg))
     /\ output.parser = "html" <=>
          ( /\ RootTag(input.arg) # Chars("kml") /\ ~JsonParses(input.arg)
            /\ RootTag(input.arg) = Chars("html") )

\* str ends with suffix
EndsWith(str, suffix) ==
  Len(str) >= Len(suffix) /\ SubSeq(str, Len(str) - Len(suffix) + 1, Len(str)) = suffix

\* C29: forceNashville(address) ends with ", Nashville, TN" for every display
\* address (and every other string): a trailing ", <other>, TN" is replaced
\* by it, and it is appended when there is no such trailing part; and
\* forceNashville applied to its own result gives that result.
C29_ForceNashville ==
  (pc = "returned" /\ input.fn = "forceNashville") =>
     /\ EndsWith(output, S_NashvilleTN)
     /\ ForcePatternAt(StringOrEmpty(input.arg)) = 0
          => output = StringOrEmpty(input.arg) \o S_NashvilleTN
     /\ forceNashville(Str(output)) = output

\* the date falls in Pacific daylight time (2025: from March 9 to November 2)
PacificDaylight(day) ==
  day >= DaysFromCivil(2025, 3, 9) /\ day < DaysFromCivil(2025, 11, 2)

\* the UTC instant of minute min of day day on Pacific clocks, as an ISO string
PacificInstant(day, min) ==
  LET utc == min + (IF PacificDaylight(day) THEN 420 ELSE 480)
  IN Str(toISOString(day + utc \div 1440, utc % 1440))

\* C30: the updatedAt parseKmlDescription returns for a description with a
\* time stamp (weekday, long date, time) is the UTC instant of that time on
\* Pacific clocks on that date, 7 hours behind UTC in daylight time and 8 in
\* standard time; for a description without a stamp it is absent.
C30_PacificInstant ==
  (pc = "returned" /\ input.fn = "parseKmlDescription") =>
     output.updatedAt = IF input.stamped THEN PacificInstant(input.day, input.min)
                        ELSE Undefined

=============================================================================
